---- MODULE Spec2Model ----
(***************************************************************************)
(* TGCloud transfer engine (tgcloud-core): the upload, delete and download *)
(* pipelines of TgCloudService over the metadata store (MongoStore) and    *)
(* the blob tier (TelegramClient).                                         *)
(*                                                                         *)
(* Byte strings are sequences of small integers.  CHUNK_SIZE is the        *)
(* source's 256 MiB constant scaled down so that files of a few bytes span *)
(* several chunks.  The digest is an idealised, collision-free SHA-256.    *)
(***************************************************************************)
EXTENDS Integers, Sequences, FiniteSets, TLC

VARIABLES
    fs,             \* local file system: existing path -> byte sequence
    bots,           \* bot roster collection, in the store's natural order
    cfg,            \* [G |-> max_global_concurrency, P |-> max_per_bot_concurrency]
    files,          \* "files" collection of the metadata store: sequence of FileMetadata
    tg,             \* blob tier: sequence of messages, message_id = position
    token_cache,    \* BotManager's cache: bot_id -> token
    up,             \* the running / last upload_file invocation
    del,            \* the running / last delete_file invocation
    dl,             \* the running / last download_file invocation
    ren,            \* the running / last rename_file invocation
    workers,        \* chunk workers of the running invocation: chunk_index -> worker
    global_permits, \* free permits of the invocation's global semaphore
    bot_permits,    \* free permits of the invocation's per-bot semaphores
    next_id,        \* source of fresh file ids (Uuid::new_v4)
    peer,           \* a download_file invocation running on the same service at
                    \*   the same time as the invocation above, with its own
                    \*   workers and gates
    backoff,        \* the backoff wait of a with_retry call: [attempt, jitter, ms]
    budget          \* what the behaviour may still do: [runs: invocations to start,
                    \*   faults: failures to inject, mods: source rewrites]

vars == <<fs, bots, cfg, files, tg, token_cache, up, del, dl, ren, workers,
          global_permits, bot_permits, next_id, peer, backoff, budget>>

---------------------------------------------------------------------------
(* Bounds of the model *)

\* service.rs:21 CHUNK_SIZE (268_435_456), scaled down
CHUNK_SIZE == 2
\* longest source file, in bytes
MaxLen == 4
\* longest source file where the gates are studied: three chunks
GateLen == 6
\* invocations per behaviour, where a specification allows several
MaxRuns == 2
\* failures the environment injects per behaviour
MaxFaults == 2
\* source-file modifications per behaviour
MaxMods == 1

\* telegram_client.rs:13
MAX_RETRIES == 5

Paths == {"a", "b"}
None == "None"

---------------------------------------------------------------------------
(* Pure helpers *)

Min(a, b) == IF a < b THEN a ELSE b

\* u64::saturating_sub
SaturatingSub(a, b) == IF a > b THEN a - b ELSE 0

\* a rounding slip: quotient plus one, also when b divides a
DivCeil_floor_plus_one(a, b) == (a \div b) + 1

\* u64::div_ceil
DivCeil(a, b) == IF a % b > 0 THEN (a \div b) + 1 ELSE a \div b

RECURSIVE Sha256From(_, _)
Sha256From(h, s) ==
    IF s = <<>> THEN h ELSE Sha256From(h * 16 + Head(s), Tail(s))

\* Sha256::new / update / finalize + hex::encode: collision-free on the model's
\* byte strings (bytes are in 0..15)
Sha256(s) == Sha256From(1, s)

RECURSIVE Concat(_)
Concat(ss) == IF ss = <<>> THEN <<>> ELSE Head(ss) \o Concat(Tail(ss))

RECURSIVE SumSeq(_)
SumSeq(s) == IF s = <<>> THEN 0 ELSE Head(s) + SumSeq(Tail(s))

Range(s) == {s[i] : i \in DOMAIN s}

\* the source content of path p with n bytes: all bytes distinct
Canon(p, n) == [i \in 1..n |-> IF p = "a" THEN i ELSE 8 + i]

---------------------------------------------------------------------------
(* Chunk planner, service.rs:78-84 and 155-157 *)

TotalChunks(total_size) ==
    IF total_size = 0 THEN 1 ELSE DivCeil(total_size, CHUNK_SIZE)

ChunkOffset(chunk_index) == chunk_index * CHUNK_SIZE

CurrentChunkSize(chunk_index, total_size) ==
    Min(CHUNK_SIZE, SaturatingSub(total_size, ChunkOffset(chunk_index)))

IsMultiBot(total_size) == total_size > CHUNK_SIZE

\* File::open + seek(offset) + take(length) on the file as it is when read
ReadPart(content, offset, length) ==
    SubSeq(content, offset + 1, Min(offset + length, Len(content)))

---------------------------------------------------------------------------
(* Bot manager *)

\* the natural (string) order of the bot ids in use
BotRank(bot_id) ==
    CASE bot_id = "b1" -> 1
      [] bot_id = "b2" -> 2
      [] bot_id = "b3" -> 3

RECURSIVE SortByBotId(_)
SortByBotId(bot_list) ==
    IF bot_list = <<>> THEN <<>>
    ELSE LET least == CHOOSE i \in DOMAIN bot_list :
                          \A j \in DOMAIN bot_list :
                              BotRank(bot_list[i].bot_id) <= BotRank(bot_list[j].bot_id)
         IN  <<bot_list[least]>> \o
             SortByBotId(SubSeq(bot_list, 1, least - 1) \o
                         SubSeq(bot_list, least + 1, Len(bot_list)))

\* MongoStore::get_active_bots: the active bots of the roster, sorted by bot_id
ActiveBots == SortByBotId(SelectSeq(bots, LAMBDA b : b.active))

\* the first active bot whatever its upload_count
GetUploadBot_first == ActiveBots[1]

\* slice::sort_by_key(|b| b.upload_count) is stable: the first bot, in store
\* order, among those with the lowest upload_count
GetUploadBot ==
    LET act == ActiveBots
        i   == CHOOSE i \in DOMAIN act :
                   /\ \A j \in DOMAIN act : act[i].upload_count <= act[j].upload_count
                   /\ \A j \in 1..(i - 1) : act[j].upload_count > act[i].upload_count
    IN  act[i]

\* every upload goes to the least used bot
SelectBots_least_used(total_size) == <<GetUploadBot>>

\* service.rs:130-136
SelectBots(total_size) ==
    IF IsMultiBot(total_size) THEN ActiveBots ELSE <<GetUploadBot>>

\* bot_manager.rs:27-35: the cache after refresh_cache
RefreshCache ==
    [b \in {ActiveBots[i].bot_id : i \in DOMAIN ActiveBots} |->
        ActiveBots[CHOOSE i \in DOMAIN ActiveBots : ActiveBots[i].bot_id = b].token]

\* the cache is refreshed before every lookup
GetTokenMap_always_refreshes(bot_ids) ==
    IF bot_ids \subseteq DOMAIN RefreshCache
    THEN [ok |-> TRUE, map |-> [b \in bot_ids |-> RefreshCache[b]],
          cache |-> RefreshCache, refreshes |-> 1]
    ELSE [ok |-> FALSE, map |-> <<>>, cache |-> RefreshCache, refreshes |-> 1]

\* bot_manager.rs:83-108: [ok, map, cache, refreshes]: the token map for
\* bot_ids, or an error, the cache afterwards and the number of refresh_cache
\* calls made
GetTokenMap(bot_ids) ==
    IF bot_ids \subseteq DOMAIN token_cache
    THEN [ok |-> TRUE, map |-> [b \in bot_ids |-> token_cache[b]],
          cache |-> token_cache, refreshes |-> 0]
    ELSE IF bot_ids \subseteq DOMAIN RefreshCache
    THEN [ok |-> TRUE, map |-> [b \in bot_ids |-> RefreshCache[b]],
          cache |-> RefreshCache, refreshes |-> 1]
    ELSE [ok |-> FALSE, map |-> <<>>, cache |-> RefreshCache, refreshes |-> 1]

TokenOf(bot_list, bot_id) ==
    LET hit == {i \in DOMAIN bot_list : bot_list[i].bot_id = bot_id}
    IN  IF hit = {} THEN None ELSE bot_list[CHOOSE i \in hit : TRUE].token

---------------------------------------------------------------------------
(* Blob tier *)

LiveMsgs == {m \in DOMAIN tg : tg[m].live}

\* sendDocument accepted: a new message holding the document; part is the
\* chunk index in the document's file name ("<name>.chunk<i>", service.rs:165-172)
PostDocument(token, part, data) ==
    Append(tg, [token |-> token, part |-> part, data |-> data, live |-> TRUE])

\* deleteMessage accepted for every message of ms
DeleteMessages(ms) ==
    [m \in DOMAIN tg |-> IF m \in ms THEN [tg[m] EXCEPT !.live = FALSE] ELSE tg[m]]

---------------------------------------------------------------------------
(* Metadata store *)

\* MongoStore::save_file: insert_one, no check on original_name
SaveFile(meta) == Append(files, meta)

\* the position of the first record named path, in the store's order, or 0
FirstNamed(path) ==
    LET hit == {k \in DOMAIN files : files[k].original_name = path}
    IN  IF hit = {} THEN 0 ELSE CHOOSE k \in hit : \A j \in hit : k <= j

\* MongoStore::get_file_by_path: find_one by original_name
GetFileByPath(path) == FirstNamed(path)

\* MongoStore::delete_file: delete_one by original_name; the collection after it
DeleteOneByName(path) ==
    LET k == FirstNamed(path)
    IN  [j \in 1..(Len(files) - 1) |-> IF j < k THEN files[j] ELSE files[j + 1]]

---------------------------------------------------------------------------
(* Retry wrapper, telegram_client.rs:234-266 and 343-363 *)

\* Outcomes of one sendDocument attempt, as the client sees them:
\*   ok        2xx with a well-formed body
\*   transient 429 or 5xx (check_transient_status), nothing stored
\*   lost      the request was accepted and stored, the response never arrived
\*             (reqwest::Error)
\*   terminal  any other non-2xx status
UploadOutcomes == {"ok", "transient", "lost", "terminal"}

\* Further outcomes of one sendDocument attempt, none of a retryable class:
\*   terminal_body 400 whose body text happens to contain the digits 500
\*   malformed     2xx, the document is stored, the body carries no file_id
\*   io            the source file cannot be opened
TerminalOutcomes == {"terminal", "terminal_body", "malformed", "io"}

AttemptError(outcome) ==
    CASE outcome = "transient"     -> "UploadFailed: Rate limited (HTTP 429)"
      [] outcome = "lost"          -> "TelegramError"
      [] outcome = "terminal"      -> "UploadFailed: Telegram API error (400)"
      [] outcome = "terminal_body" ->
             "UploadFailed: Telegram API error (400): chat -100500 not found"
      [] outcome = "malformed"     -> "UploadFailed: No file_id in response"
      [] outcome = "io"            -> "IoError"
      [] OTHER                     -> None

\* the variant of TgCloudError an error value of the model is
ErrKind(err) ==
    CASE err \in {"UploadFailed: Rate limited (HTTP 429)",
                  "UploadFailed: Telegram API error (400)",
                  "UploadFailed: Telegram API error (400): chat -100500 not found",
                  "UploadFailed: No file_id in response",
                  "UploadFailed: Delete failed: 429"} -> "UploadFailed"
      [] err \in {"DownloadFailed: No file_path in Telegram response",
                  "DownloadFailed: Download failed: 404"} -> "DownloadFailed"
      [] err = "TelegramError" -> "TelegramError"
      [] OTHER -> err

\* which of is_retryable's search strings occur in the error's message
\* (str::contains, telegram_client.rs:348-354)
ErrMentions(err) ==
    CASE err = "UploadFailed: Rate limited (HTTP 429)" -> {"429", "Rate limited"}
      [] err = "UploadFailed: Telegram API error (400): chat -100500 not found" -> {"500"}
      [] err = "UploadFailed: Delete failed: 429" -> {"429"}
      [] OTHER -> {}

\* telegram_client.rs:343-363
IsRetryable(err) ==
    \/ /\ ErrKind(err) \in {"UploadFailed", "DownloadFailed", "DeleteFailed"}
       /\ ErrMentions(err) \cap {"429", "Rate limited", "Server error",
                                 "500", "502", "503", "504"} # {}
    \/ ErrKind(err) \in {"RateLimited", "TelegramError"}

\* allows one attempt more than MAX_RETRIES
WithRetryStep_one_more(attempt, err) ==
    IF err = None THEN "return_ok"
    ELSE IF ~IsRetryable(err) THEN "return_err"
    ELSE IF attempt < MAX_RETRIES THEN "retry"
    ELSE "exhausted"

\* One turn of with_retry's loop after `attempt` failed attempts: what the
\* wrapper does with the result of the next attempt
WithRetryStep(attempt, err) ==
    IF err = None THEN "return_ok"
    ELSE IF ~IsRetryable(err) THEN "return_err"
    ELSE IF attempt + 1 < MAX_RETRIES THEN "retry"
    ELSE "exhausted"

\* telegram_client.rs:247-255: the sleep is part of the arm of every retryable
\* failure, whether or not an attempt is left: the number of sleeps that
\* follow a turn of the loop
BackoffWaits(step) == IF step \in {"retry", "exhausted"} THEN 1 ELSE 0

BASE_DELAY_MS == 1000

RECURSIVE Pow2(_)
Pow2(k) == IF k = 0 THEN 1 ELSE 2 * Pow2(k - 1)

\* a jitter of up to half the base
JitterRange_half(base) == base \div 2

\* telegram_client.rs:369: jitter_range = base / 4
JitterRange(base) == base \div 4

\* telegram_client.rs:368-376: the delay after failed attempt number `attempt`
\* (from 0) when the random draw is `jitter`
BackoffDelay(attempt, jitter) ==
    LET base == BASE_DELAY_MS * Pow2(attempt)
        ms   == base + jitter
    IN  IF ms < 100 THEN 100 ELSE ms

\* telegram_client.rs:370-374: gen_range(-(jitter_range)..=jitter_range), or 0
\* when the range is empty
JitterDraws(attempt) ==
    LET jitter_range == JitterRange(BASE_DELAY_MS * Pow2(attempt))
    IN  IF jitter_range > 0 THEN (0 - jitter_range)..jitter_range ELSE {0}

\* telegram_client.rs:241-255: attempt number `attempt` of a with_retry call
\* failed with a retryable error; the call computes the delay and sleeps
BackoffSleep(attempt, jitter) ==
    /\ ~backoff.slept
    /\ attempt \in 0..(MAX_RETRIES - 1)
    /\ jitter \in JitterDraws(attempt)
    /\ backoff' = [attempt |-> attempt, jitter |-> jitter, slept |-> TRUE,
                   ms |-> BackoffDelay(attempt, jitter)]
    /\ UNCHANGED <<fs, bots, cfg, files, tg, token_cache, up, del, dl, ren, workers,
                   global_permits, bot_permits, next_id, peer, budget>>

---------------------------------------------------------------------------
(* upload_file, service.rs:77-326 *)

\* an event without payload, and the Failed event with its error text
Ev(status) == [status |-> status, error |-> None]

FailedEv(err) == [status |-> "Failed", error |-> err]

\* gives up the invocation when the receiver is gone
Emit_abort_when_closed(u, evs) ==
    IF u.rx = "dropped"
    THEN [u EXCEPT !.pc = "done", !.result = "SendError"]
    ELSE [u EXCEPT !.events = @ \o evs, !.received = @ \o evs]

\* `let _ = sender.send(..).await` and `let _ = sender.try_send(..)`: the events
\* are handed to the channel in order; with the receiver gone the send returns
\* an error at once, which is ignored, and the event is discarded
Emit(u, evs) ==
    [u EXCEPT !.events = @ \o evs,
              !.received = IF u.rx = "open" THEN @ \o evs ELSE @]

IdleUp ==
    [pc |-> "idle", path |-> None, total_size |-> 0, total_chunks |-> 0,
     sha256 |-> 0, token_map |-> <<>>, progress |-> 0, chunks |-> <<>>,
     first_error |-> None, events |-> <<>>, result |-> None, file_id |-> 0,
     msg0 |-> 0, rx |-> "open", received |-> <<>>, rolled_back |-> {}]

IdleDel ==
    [pc |-> "idle", path |-> None, file_id |-> 0, chunks |-> <<>>, errors |-> <<>>,
     result |-> None, report |-> <<0, 0>>, refreshes |-> 0]

IdleDl ==
    [pc |-> "idle", path |-> None, out |-> None, file_id |-> 0, sha256 |-> 0,
     temp_files |-> <<>>, first_error |-> None, events |-> <<>>, result |-> None,
     rx |-> "open", received |-> <<>>, refreshes |-> 0]

\* no second invocation is running
IdlePeer ==
    [pc |-> "idle", path |-> None, out |-> None, file_id |-> 0, sha256 |-> 0,
     temp_files |-> <<>>, first_error |-> None, events |-> <<>>, result |-> None,
     rx |-> "open", received |-> <<>>,
     workers |-> <<>>, global_permits |-> 0, bot_permits |-> <<>>]

\* no with_retry call is waiting
NoBackoff == [attempt |-> 0, jitter |-> 0, ms |-> 0, slept |-> FALSE]

IdleRen == [pc |-> "idle", old |-> None, new |-> None, result |-> None]

\* invocations run one after the other; starting one forgets the last one's
\* return value
NoInvocationRunning ==
    /\ up.pc \in {"idle", "done"}
    /\ del.pc \in {"idle", "done"}
    /\ dl.pc \in {"idle", "done"}

UploadPaths == Paths \cup {"gone"}

\* service.rs:78-103: stat, plan, Started, Hashing
UploadStart(p) ==
    /\ NoInvocationRunning
    /\ budget.runs > 0
    /\ budget' = [budget EXCEPT !.runs = @ - 1]
    /\ LET called == [IdleUp EXCEPT !.path = p, !.msg0 = Len(tg),
                                     !.rx = IF up.pc = "idle" THEN up.rx ELSE "open"]
       IN  IF p \notin DOMAIN fs
           THEN up' = [called EXCEPT !.pc = "done", !.result = "IoError"]
           ELSE up' = Emit([called EXCEPT !.pc = "hashing",
                                          !.total_size = Len(fs[p]),
                                          !.total_chunks = TotalChunks(Len(fs[p]))],
                           <<Ev("Started"), Ev("Hashing")>>)
    /\ workers' = <<>>
    /\ del' = IdleDel
    /\ dl' = IdleDl
    /\ UNCHANGED <<peer, backoff, ren, fs, bots, cfg, files, tg, token_cache, global_permits,
                   bot_permits, next_id>>

\* the worker starts past the global gate
SpawnWorker_skips_global_gate(chunk_index, total_size, bot_list) ==
    LET assigned == bot_list[(chunk_index % Len(bot_list)) + 1]
    IN  [st |-> "waitB", attempt |-> 0, waits |-> 0,
         bot_id |-> assigned.bot_id, token |-> assigned.token,
         offset |-> ChunkOffset(chunk_index),
         len |-> CurrentChunkSize(chunk_index, total_size)]

\* service.rs:155-187: the worker spawned for chunk_index
SpawnWorker(chunk_index, total_size, bot_list) ==
    LET assigned == bot_list[(chunk_index % Len(bot_list)) + 1]
    IN  [st |-> "waitG", attempt |-> 0, waits |-> 0,
         bot_id |-> assigned.bot_id, token |-> assigned.token,
         offset |-> ChunkOffset(chunk_index),
         len |-> CurrentChunkSize(chunk_index, total_size)]

\* one permit more than max_per_bot_concurrency
BuildPerBotSemaphores_one_extra(bot_list) ==
    [b \in {bot_list[i].bot_id : i \in DOMAIN bot_list} |-> cfg.P + 1]

\* service.rs:64-71
BuildPerBotSemaphores(bot_list) ==
    [b \in {bot_list[i].bot_id : i \in DOMAIN bot_list} |-> cfg.P]

\* service.rs:105-222: digest of the file as it is now, HashComplete, bot
\* selection, semaphores, one worker per chunk
UploadHash ==
    /\ up.pc = "hashing"
    /\ LET hashed == Emit([up EXCEPT !.sha256 = Sha256(fs[up.path])],
                          <<Ev("HashComplete")>>)
       IN  IF ActiveBots = <<>>
           THEN /\ up' = [hashed EXCEPT !.pc = "done", !.result = "BotManagerError"]
                /\ UNCHANGED <<workers, global_permits, bot_permits>>
           ELSE LET sel == SelectBots(up.total_size)
                IN  /\ up' = [hashed EXCEPT !.pc = "workers", !.token_map = sel]
                    /\ workers' = [i \in 0..(up.total_chunks - 1) |->
                                       SpawnWorker(i, up.total_size, sel)]
                    /\ global_permits' = cfg.G
                    /\ bot_permits' = BuildPerBotSemaphores(sel)
    /\ token_cache' = RefreshCache
    /\ UNCHANGED <<peer, backoff, ren, fs, bots, cfg, files, tg, del, dl, next_id, budget>>

\* the permit is kept when the worker ends
ReleasePermit_leak(permits) == permits

\* the SemaphorePermit guards _bot_permit and _global_permit go out of scope
\* when the worker's task ends (service.rs:221, 435, 630): add_permits(1)
ReleasePermit(permits) == permits + 1

\* an invocation has spawned its chunk workers and is collecting their results
WorkersRunning == up.pc = "workers" \/ del.pc = "workers" \/ dl.pc = "workers"

\* service.rs:190-192, 406-408, 607-609
AcquireGlobal(i) ==
    /\ WorkersRunning
    /\ i \in DOMAIN workers
    /\ workers[i].st = "waitG"
    /\ global_permits > 0
    /\ global_permits' = global_permits - 1
    /\ workers' = [workers EXCEPT ![i].st = "waitB"]
    /\ UNCHANGED <<peer, backoff, ren, fs, bots, cfg, files, tg, token_cache, up, del, dl, bot_permits,
                   next_id, budget>>

\* service.rs:195-200, 411-416, 612-617
AcquireBot(i) ==
    /\ WorkersRunning
    /\ i \in DOMAIN workers
    /\ workers[i].st = "waitB"
    /\ bot_permits[workers[i].bot_id] > 0
    /\ bot_permits' = [bot_permits EXCEPT ![workers[i].bot_id] = @ - 1]
    /\ workers' = [workers EXCEPT ![i].st = "run"]
    /\ UNCHANGED <<peer, backoff, ren, fs, bots, cfg, files, tg, token_cache, up, del, dl, global_permits,
                   next_id, budget>>

\* records the chunk's index where the blob tier's message id belongs
MakeChunk_wrong_message(chunk_index, w, msg_id) ==
    [index |-> chunk_index, bot_id |-> w.bot_id, telegram_file_id |-> msg_id,
     message_id |-> chunk_index, size |-> w.len]

\* service.rs:214-220
MakeChunk(chunk_index, w, msg_id) ==
    [index |-> chunk_index, bot_id |-> w.bot_id, telegram_file_id |-> msg_id,
     message_id |-> msg_id, size |-> w.len]

\* service.rs:228-247: the collector takes worker results in completion order
CollectOk(u, chunk) == [u EXCEPT !.chunks = Append(u.chunks, chunk)]

CollectErr(u, err) ==
    [u EXCEPT !.first_error = IF u.first_error = None THEN err ELSE u.first_error]

\* goes on from where the attempts before stopped reading
AttemptOffset_resumes(w) == w.offset + w.attempt * w.len

\* telegram_client.rs:139-140: every attempt opens the file and seeks to the
\* chunk's offset
AttemptOffset(w) == w.offset

\* service.rs:202-212 with telegram_client.rs:130-147: one attempt of
\* upload_part_with_retry for chunk i, and the end of the worker when the
\* retry wrapper returns
UploadAttempt(i, outcome) ==
    /\ up.pc = "workers"
    /\ i \in DOMAIN workers
    /\ workers[i].st = "run"
    /\ outcome # "ok" => budget.faults > 0
    /\ budget' = IF outcome = "ok" THEN budget ELSE [budget EXCEPT !.faults = @ - 1]
    /\ LET w      == workers[i]
           data   == ReadPart(fs[up.path], AttemptOffset(w), w.len)
           msg_id == Len(tg) + 1
           err    == AttemptError(outcome)
           step   == WithRetryStep(w.attempt, err)
           read   == [up EXCEPT !.progress = up.progress + Len(data)]
       IN  /\ tg' = IF outcome \in {"ok", "lost", "malformed"}
                    THEN PostDocument(w.token, i, data) ELSE tg
           /\ CASE step = "return_ok" ->
                     /\ up' = CollectOk(read, MakeChunk(i, w, msg_id))
                     /\ workers' = [workers EXCEPT ![i].st = "ok"]
                [] step = "return_err" ->
                     /\ up' = CollectErr(read, err)
                     /\ workers' = [workers EXCEPT ![i].st = "err"]
                [] step = "exhausted" ->
                     /\ up' = CollectErr(read, "RetryExhausted")
                     /\ workers' = [workers EXCEPT ![i].st = "err", ![i].attempt = @ + 1,
                                                   ![i].waits = @ + BackoffWaits(step)]
                [] OTHER ->
                     /\ up' = read
                     /\ workers' = [workers EXCEPT ![i].attempt = @ + 1,
                                                   ![i].waits = @ + BackoffWaits(step)]
           /\ IF step = "retry"
              THEN UNCHANGED <<global_permits, bot_permits>>
              ELSE /\ global_permits' = ReleasePermit(global_permits)
                   /\ bot_permits' = [bot_permits EXCEPT ![w.bot_id] = ReleasePermit(@)]
    /\ UNCHANGED <<peer, backoff, ren, fs, bots, cfg, files, token_cache, del, dl, next_id>>

\* stops waiting as soon as one worker has failed
AllWorkersDone_or_first_failure ==
    \/ \E i \in DOMAIN workers : workers[i].st = "err"
    \/ \A i \in DOMAIN workers : workers[i].st \in {"ok", "err"}

\* the collector expects one result more than there are workers
AllWorkersDone_expects_one_more ==
    /\ \A i \in DOMAIN workers : workers[i].st \in {"ok", "err"}
    /\ Cardinality(DOMAIN workers) \in DOMAIN workers

\* service.rs:228, 442, 636: `while let Some(..) = futures.next().await` ends
\* when every spawned task has completed
AllWorkersDone == \A i \in DOMAIN workers : workers[i].st \in {"ok", "err"}

\* commits although a worker failed
MustRollback_ignores_worker_error(u, save_ok) == ~save_ok

\* service.rs:249 and 288: whether the invocation rolls back instead of committing
MustRollback(u, save_ok) == u.first_error # None \/ ~save_ok

\* every delete goes out with the token of the first selected bot
RollbackTargets_first_bot(chunks, token_map) ==
    {[token |-> token_map[1].token, message_id |-> chunks[k].message_id] :
        k \in DOMAIN chunks}

\* service.rs:251-253 and 308-310: the deleteMessage calls of a rollback, one per
\* collected chunk, with the token of the chunk's own bot_id
RollbackTargets(chunks, token_map) ==
    {[token |-> TokenOf(token_map, chunks[k].bot_id),
      message_id |-> chunks[k].message_id] :
        k \in {j \in DOMAIN chunks : TokenOf(token_map, chunks[j].bot_id) # None}}

\* service.rs:251-258 and 308-315: deleteMessage for every collected chunk, result
\* ignored; `failed` are the messages whose deleteMessage did not succeed; the
\* blob tier deletes a message only for the bot that posted it
Rollback(chunks, failed) ==
    LET targets == RollbackTargets(chunks, up.token_map)
    IN  DeleteMessages({t.message_id : t \in {x \in targets :
                            /\ x.message_id \in DOMAIN tg
                            /\ tg[x.message_id].token = x.token}} \ failed)

\* keeps the completion order
SortByIndex_unsorted(chunks) == chunks

\* chunks.sort_by_key(|c| c.index)
SortByIndex(chunks) ==
    LET idx == {chunks[k].index : k \in DOMAIN chunks}
        RECURSIVE Asc(_)
        Asc(S) == IF S = {} THEN <<>>
                  ELSE LET m == CHOOSE x \in S : \A y \in S : x <= y
                       IN  <<m>> \o Asc(S \ {m})
        order == Asc(idx)
    IN  [k \in DOMAIN order |->
            chunks[CHOOSE j \in DOMAIN chunks : chunks[j].index = order[k]]]

\* service.rs:272-285
MakeFileMeta(u, file_id) ==
    [file_id |-> file_id, original_name |-> u.path, size |-> u.total_size,
     chunk_size |-> CHUNK_SIZE, total_chunks |-> u.total_chunks,
     sha256 |-> u.sha256, chunks |-> SortByIndex(u.chunks)]

\* storage.rs:148-151 through bot_manager.rs:110-112: the body is `Ok(())`
IncrementBotUsage(roster, bot_id) == roster

\* service.rs:291-297: increment_usage once for each distinct bot_id of the chunks
RECURSIVE IncrementUsages(_, _)
IncrementUsages(roster, bot_ids) ==
    IF bot_ids = {} THEN roster
    ELSE LET b == CHOOSE x \in bot_ids : TRUE
         IN  IncrementUsages(IncrementBotUsage(roster, b), bot_ids \ {b})

\* service.rs:249-325: all workers are drained; rollback, or sort + insert
UploadFinish(save_ok, failed) ==
    /\ up.pc = "workers"
    /\ AllWorkersDone
    /\ failed \subseteq {up.chunks[k].message_id : k \in DOMAIN up.chunks}
    /\ IF MustRollback(up, save_ok)
       THEN /\ tg' = Rollback(up.chunks, failed)
            /\ LET err == IF up.first_error # None THEN up.first_error
                          ELSE "MongoError"
               IN  up' = Emit([up EXCEPT !.pc = "done", !.result = err,
                                         !.rolled_back =
                                             RollbackTargets(up.chunks, up.token_map)],
                              <<FailedEv(err)>>)
            /\ UNCHANGED <<files, next_id, bots>>
       ELSE /\ failed = {}
            /\ files' = SaveFile(MakeFileMeta(up, next_id))
            /\ bots' = IncrementUsages(bots, {up.chunks[k].bot_id : k \in DOMAIN up.chunks})
            /\ up' = Emit([up EXCEPT !.pc = "done", !.file_id = next_id,
                                     !.result = "Ok"],
                           <<Ev("Completed")>>)
            /\ next_id' = next_id + 1
            /\ UNCHANGED tg
    /\ UNCHANGED <<peer, backoff, ren, fs, cfg, token_cache, del, dl, workers, global_permits,
                   bot_permits, budget>>

---------------------------------------------------------------------------
(* delete_file, service.rs:565-662 *)

\* sort + dedup of the chunks' bot ids, service.rs:570-575 and 354-359
UniqueBotIds(chunks) == {chunks[k].bot_id : k \in DOMAIN chunks}

\* service.rs:587-604: the delete worker spawned for a chunk
SpawnDeleteWorker(chunk, token_map) ==
    [st |-> "waitG", attempt |-> 0, waits |-> 0, bot_id |-> chunk.bot_id,
     token |-> token_map[chunk.bot_id], message_id |-> chunk.message_id,
     index |-> chunk.index]

\* service.rs:566-631: load the record by name, resolve tokens, spawn one worker
\* per chunk
DeleteStart(p) ==
    /\ NoInvocationRunning
    /\ budget.runs > 0
    /\ budget' = [budget EXCEPT !.runs = @ - 1]
    /\ LET k == GetFileByPath(p)
       IN  IF k = 0
           THEN /\ del' = [IdleDel EXCEPT !.pc = "done", !.path = p,
                                          !.result = "FileNotFound"]
                /\ UNCHANGED <<token_cache, workers, global_permits, bot_permits>>
           ELSE LET file == files[k]
                    tm   == GetTokenMap(UniqueBotIds(file.chunks))
                IN  /\ token_cache' = tm.cache
                    /\ IF ~tm.ok
                       THEN /\ del' = [IdleDel EXCEPT !.pc = "done", !.path = p,
                                                      !.result = "BotManagerError",
                                                      !.refreshes = tm.refreshes]
                            /\ UNCHANGED <<workers, global_permits, bot_permits>>
                       ELSE /\ del' = [IdleDel EXCEPT !.pc = "workers", !.path = p,
                                                      !.file_id = file.file_id,
                                                      !.chunks = file.chunks,
                                                      !.refreshes = tm.refreshes]
                            /\ workers' = [i \in 0..(Len(file.chunks) - 1) |->
                                               SpawnDeleteWorker(file.chunks[i + 1], tm.map)]
                            /\ global_permits' = cfg.G
                            /\ bot_permits' = [b \in UniqueBotIds(file.chunks) |-> cfg.P]
    /\ up' = IdleUp
    /\ dl' = IdleDl
    /\ UNCHANGED <<peer, backoff, ren, fs, bots, cfg, files, tg, next_id>>

\* telegram_client.rs:155-171: deleteMessage is sent once; the blob tier accepts
\* it only for a message that is still there
DeleteAccepted(message_id, outcome) ==
    outcome = "ok" /\ message_id \in LiveMsgs

\* service.rs:619-629 and 636-646: the worker's single deleteMessage call, and the
\* collector taking its result
DeleteAttempt(i, outcome) ==
    /\ del.pc = "workers"
    /\ i \in DOMAIN workers
    /\ workers[i].st = "run"
    /\ LET w  == workers[i]
           ok == DeleteAccepted(w.message_id, outcome)
       IN  /\ (outcome # "ok" /\ w.message_id \in LiveMsgs) => budget.faults > 0
           /\ budget' = IF outcome # "ok" /\ w.message_id \in LiveMsgs
                        THEN [budget EXCEPT !.faults = @ - 1] ELSE budget
           /\ tg' = IF ok THEN DeleteMessages({w.message_id}) ELSE tg
           /\ workers' = [workers EXCEPT ![i].st = IF ok THEN "ok" ELSE "err"]
           /\ del' = IF ok THEN del
                     ELSE [del EXCEPT !.errors = Append(del.errors, w.index)]
           /\ global_permits' = ReleasePermit(global_permits)
           /\ bot_permits' = [bot_permits EXCEPT ![w.bot_id] = ReleasePermit(@)]
    /\ UNCHANGED <<peer, backoff, ren, fs, bots, cfg, files, token_cache, up, dl, next_id>>

\* removes the metadata whatever the workers returned
PartialFailure_never(errors) == FALSE

\* service.rs:648: whether delete_file stops before touching the metadata
PartialFailure(errors) == errors # <<>>

\* service.rs:648-661: all workers are drained; DeleteFailed, or remove the
\* metadata record by name
DeleteFinish(store_ok) ==
    /\ del.pc = "workers"
    /\ AllWorkersDone
    /\ IF PartialFailure(del.errors)
       THEN /\ store_ok
            /\ del' = [del EXCEPT !.pc = "done", !.result = "DeleteFailed",
                                  !.report = <<Len(del.errors), Len(del.chunks)>>]
            /\ UNCHANGED files
       ELSE IF ~store_ok
       THEN /\ del' = [del EXCEPT !.pc = "done", !.result = "MongoError"]
            /\ UNCHANGED files
       ELSE IF FirstNamed(del.path) = 0
       THEN /\ del' = [del EXCEPT !.pc = "done", !.result = "FileNotFound"]
            /\ UNCHANGED files
       ELSE /\ del' = [del EXCEPT !.pc = "done", !.result = "Ok"]
            /\ files' = DeleteOneByName(del.path)
    /\ UNCHANGED <<peer, backoff, ren, fs, bots, cfg, tg, token_cache, up, dl, workers, global_permits,
                   bot_permits, next_id, budget>>

---------------------------------------------------------------------------
(* download_file, service.rs:332-555 *)

OutPaths == {"q"}

\* the worker streams into the output file itself
TempPath_is_output(out, chunk_index) == out

\* format!("{}.chunk_{}.tmp", output_path, chunk_index), service.rs:400
TempPath(out, chunk_index) == out \o ".chunk_" \o ToString(chunk_index) \o ".tmp"

\* service.rs:385-402: the download worker spawned for a chunk
SpawnDownloadWorker(chunk, token_map, out) ==
    [st |-> "waitG", attempt |-> 0, waits |-> 0, bot_id |-> chunk.bot_id,
     token |-> token_map[chunk.bot_id], telegram_file_id |-> chunk.telegram_file_id,
     index |-> chunk.index, temp_path |-> TempPath(out, chunk.index)]

\* service.rs:338-436: load the record by name, Started, resolve tokens, sort the
\* chunks, spawn one worker per chunk
DownloadStart(p, out) ==
    /\ NoInvocationRunning
    /\ budget.runs > 0
    /\ budget' = [budget EXCEPT !.runs = @ - 1]
    /\ LET k      == GetFileByPath(p)
           called == [IdleDl EXCEPT !.path = p, !.out = out,
                                    !.rx = IF dl.pc = "idle" THEN dl.rx ELSE "open"]
       IN  IF k = 0
           THEN /\ dl' = [called EXCEPT !.pc = "done", !.result = "FileNotFound"]
                /\ UNCHANGED <<token_cache, workers, global_permits, bot_permits>>
           ELSE LET file   == files[k]
                    tm     == GetTokenMap(UniqueBotIds(file.chunks))
                    chunks == SortByIndex(file.chunks)
                    loaded == Emit([called EXCEPT !.file_id = file.file_id,
                                                  !.sha256 = file.sha256,
                                                  !.refreshes = tm.refreshes],
                                   <<Ev("Started")>>)
                IN  /\ token_cache' = tm.cache
                    /\ IF ~tm.ok
                       THEN /\ dl' = Emit([loaded EXCEPT !.pc = "done",
                                                         !.result = "BotManagerError"],
                                           <<FailedEv("BotManagerError")>>)
                            /\ UNCHANGED <<workers, global_permits, bot_permits>>
                       ELSE /\ dl' = [loaded EXCEPT !.pc = "workers"]
                            /\ workers' = [i \in 0..(Len(chunks) - 1) |->
                                               SpawnDownloadWorker(chunks[i + 1], tm.map, out)]
                            /\ global_permits' = cfg.G
                            /\ bot_permits' = [b \in UniqueBotIds(file.chunks) |-> cfg.P]
    /\ up' = IdleUp
    /\ del' = IdleDel
    /\ UNCHANGED <<peer, backoff, ren, fs, bots, cfg, files, tg, next_id>>

\* Outcomes of one pass of a download worker, as the worker sees them:
\*   ok           getFile and GET succeed and the whole body arrives
\*   resolve_fail getFile fails or carries no file_path
\*   transient    GET answers 429 or 5xx (inside download_file_with_retry)
\*   terminal     GET answers another non-2xx status
\*   midstream    the body breaks off after the temp file was created
DownloadOutcomes == {"ok", "resolve_fail", "transient", "terminal", "midstream"}

\* one more outcome, of a retryable class:
\*   resolve_network  the getFile request fails with a network error
\* The outcomes that arise outside download_file_with_retry: get_download_url
\* (service.rs:419) and the streaming loop (service.rs:427) are not inside the
\* retried closure
OutsideRetry == {"resolve_fail", "resolve_network", "midstream"}

DownloadError(outcome) ==
    CASE outcome = "resolve_fail" -> "DownloadFailed: No file_path in Telegram response"
      [] outcome = "resolve_network" -> "TelegramError"
      [] outcome = "transient"    -> "UploadFailed: Rate limited (HTTP 429)"
      [] outcome = "terminal"     -> "DownloadFailed: Download failed: 404"
      [] outcome = "midstream"    -> "TelegramError"
      [] OTHER                    -> None

\* the file system with path holding content
WriteFile(disk, path, content) ==
    [q \in DOMAIN disk \cup {path} |-> IF q = path THEN content ELSE disk[q]]

\* leaves every file where it is
RemoveFiles_keeps_all(disk, paths) == disk

\* the file system without the files of paths (tokio::fs::remove_file, result ignored)
RemoveFiles(disk, paths) == [q \in DOMAIN disk \ paths |-> disk[q]]

\* service.rs:418-434 and 442-459: one pass of the worker of chunk i through
\* get_download_url, download_file_with_retry and the streaming loop, and the
\* collector taking the worker's result
DownloadAttempt(i, outcome) ==
    /\ dl.pc = "workers"
    /\ i \in DOMAIN workers
    /\ workers[i].st = "run"
    /\ outcome = "ok" => workers[i].telegram_file_id \in LiveMsgs
    /\ outcome # "ok" => budget.faults > 0
    /\ budget' = IF outcome = "ok" THEN budget ELSE [budget EXCEPT !.faults = @ - 1]
    /\ LET w    == workers[i]
           data == tg[w.telegram_file_id].data
           err  == DownloadError(outcome)
           step == IF outcome \in OutsideRetry THEN "return_err"
                   ELSE WithRetryStep(w.attempt, err)
       IN  /\ fs' = CASE outcome = "ok" -> WriteFile(fs, w.temp_path, data)
                      [] outcome = "midstream" ->
                             WriteFile(fs, w.temp_path, SubSeq(data, 1, Len(data) - 1))
                      [] OTHER -> fs
           /\ CASE step = "return_ok" ->
                     /\ dl' = [dl EXCEPT !.temp_files =
                                   Append(@, [index |-> w.index, path |-> w.temp_path])]
                     /\ workers' = [workers EXCEPT ![i].st = "ok"]
                [] step = "return_err" ->
                     /\ dl' = [dl EXCEPT !.first_error =
                                   IF @ = None THEN err ELSE @]
                     /\ workers' = [workers EXCEPT ![i].st = "err"]
                [] step = "exhausted" ->
                     /\ dl' = [dl EXCEPT !.first_error =
                                   IF @ = None THEN "RetryExhausted" ELSE @]
                     /\ workers' = [workers EXCEPT ![i].st = "err", ![i].attempt = @ + 1,
                                                   ![i].waits = @ + BackoffWaits(step)]
                [] OTHER ->
                     /\ dl' = dl
                     /\ workers' = [workers EXCEPT ![i].attempt = @ + 1,
                                                   ![i].waits = @ + BackoffWaits(step)]
           /\ IF step = "retry"
              THEN UNCHANGED <<global_permits, bot_permits>>
              ELSE /\ global_permits' = ReleasePermit(global_permits)
                   /\ bot_permits' = [bot_permits EXCEPT ![w.bot_id] = ReleasePermit(@)]
    /\ UNCHANGED <<peer, backoff, ren, bots, cfg, files, tg, token_cache, up, del, next_id>>

\* verification always passes
HashMismatch_never(actual_hash, expected) == FALSE

\* service.rs:521
HashMismatch(actual_hash, expected) == actual_hash # expected

\* concatenates the temp files in the order the workers finished
Merged_completion_order(disk, temp_files) ==
    Concat([k \in DOMAIN temp_files |-> disk[temp_files[k].path]])

\* service.rs:483-498: the temp files concatenated in ascending index order
Merged(disk, temp_files) ==
    LET sorted == SortByIndex(temp_files)
    IN  Concat([k \in DOMAIN sorted |-> disk[sorted[k].path]])

\* service.rs:461-554: all workers are drained; clean up on error, or merge,
\* verify and clean up
DownloadFinish(io_ok) ==
    /\ dl.pc = "workers"
    /\ AllWorkersDone
    /\ LET temps  == {dl.temp_files[k].path : k \in DOMAIN dl.temp_files}
           merged == Merged(fs, dl.temp_files)
       IN  IF dl.first_error # None
           THEN /\ io_ok
                /\ fs' = RemoveFiles(fs, temps)
                /\ dl' = Emit([dl EXCEPT !.pc = "done", !.result = dl.first_error],
                               <<FailedEv(dl.first_error)>>)
           ELSE IF ~io_ok
           THEN /\ fs' = fs
                /\ dl' = Emit([dl EXCEPT !.pc = "done", !.result = "IoError"],
                               <<Ev("Merging")>>)
           ELSE IF HashMismatch(Sha256(merged), dl.sha256)
           THEN /\ fs' = RemoveFiles(WriteFile(fs, dl.out, merged), temps \cup {dl.out})
                /\ dl' = Emit([dl EXCEPT !.pc = "done", !.result = "IntegrityFailed"],
                               <<Ev("Merging"), Ev("Verifying"),
                                 FailedEv("IntegrityFailed")>>)
           ELSE /\ fs' = RemoveFiles(WriteFile(fs, dl.out, merged), temps)
                /\ dl' = Emit([dl EXCEPT !.pc = "done", !.result = "Ok"],
                               <<Ev("Merging"), Ev("Verifying"), Ev("Completed")>>)
    /\ UNCHANGED <<peer, backoff, ren, bots, cfg, files, tg, token_cache, up, del, workers, global_permits,
                   bot_permits, next_id, budget>>

---------------------------------------------------------------------------
(* A second download_file on the same service, running at the same time as *)
(* the invocation above (the web frontend spawns one task per request,     *)
(* web/mod.rs:158-160 and 187-190)                                         *)

\* permits of the invocation above that its workers hold
HeldGlobal == IF WorkersRunning THEN cfg.G - global_permits ELSE 0

HeldBot(bot_id) ==
    IF WorkersRunning /\ bot_id \in DOMAIN bot_permits
    THEN cfg.P - bot_permits[bot_id] ELSE 0

\* one semaphore for the whole service: a new invocation finds the permits
\* that the running one has left
NewSemaphore_service_wide(permits, held_elsewhere) == permits - held_elsewhere

\* service.rs:148-149 (and 64-71), 378-379, 581-582: Semaphore::new(limit) is
\* called inside the invocation, whatever other invocations hold
NewSemaphore(permits, held_elsewhere) == permits

\* service.rs:338-436 for the second invocation
PeerStart(p, out) ==
    /\ peer.pc \in {"idle", "done"}
    /\ budget.runs > 0
    /\ budget' = [budget EXCEPT !.runs = @ - 1]
    /\ LET k      == GetFileByPath(p)
           called == [IdlePeer EXCEPT !.path = p, !.out = out]
       IN  IF k = 0
           THEN /\ peer' = [called EXCEPT !.pc = "done", !.result = "FileNotFound"]
                /\ UNCHANGED token_cache
           ELSE LET file   == files[k]
                    ids    == UniqueBotIds(file.chunks)
                    tm     == GetTokenMap(ids)
                    chunks == SortByIndex(file.chunks)
                    loaded == Emit([called EXCEPT !.file_id = file.file_id,
                                                  !.sha256 = file.sha256],
                                   <<Ev("Started")>>)
                IN  /\ token_cache' = tm.cache
                    /\ IF ~tm.ok
                       THEN peer' = Emit([loaded EXCEPT !.pc = "done",
                                                        !.result = "BotManagerError"],
                                         <<FailedEv("BotManagerError")>>)
                       ELSE peer' = [loaded EXCEPT
                                !.pc = "workers",
                                !.workers = [i \in 0..(Len(chunks) - 1) |->
                                    SpawnDownloadWorker(chunks[i + 1], tm.map, out)],
                                !.global_permits = NewSemaphore(cfg.G, HeldGlobal),
                                !.bot_permits =
                                    [b \in ids |-> NewSemaphore(cfg.P, HeldBot(b))]]
    /\ UNCHANGED <<fs, bots, cfg, files, tg, up, del, dl, ren, workers,
                   global_permits, bot_permits, next_id, backoff>>

\* service.rs:406-408 for the second invocation
PeerAcquireGlobal(i) ==
    /\ peer.pc = "workers"
    /\ i \in DOMAIN peer.workers
    /\ peer.workers[i].st = "waitG"
    /\ peer.global_permits > 0
    /\ peer' = [peer EXCEPT !.global_permits = @ - 1, !.workers[i].st = "waitB"]
    /\ UNCHANGED <<fs, bots, cfg, files, tg, token_cache, up, del, dl, ren, workers,
                   global_permits, bot_permits, next_id, backoff, budget>>

\* service.rs:411-416 for the second invocation
PeerAcquireBot(i) ==
    /\ peer.pc = "workers"
    /\ i \in DOMAIN peer.workers
    /\ peer.workers[i].st = "waitB"
    /\ peer.bot_permits[peer.workers[i].bot_id] > 0
    /\ peer' = [peer EXCEPT !.bot_permits[peer.workers[i].bot_id] = @ - 1,
                            !.workers[i].st = "run"]
    /\ UNCHANGED <<fs, bots, cfg, files, tg, token_cache, up, del, dl, ren, workers,
                   global_permits, bot_permits, next_id, backoff, budget>>

\* service.rs:418-434 and 442-459 for the second invocation, on a blob tier
\* that serves every message it still holds
PeerAttempt(i) ==
    /\ peer.pc = "workers"
    /\ i \in DOMAIN peer.workers
    /\ peer.workers[i].st = "run"
    /\ LET w       == peer.workers[i]
           served  == w.telegram_file_id \in LiveMsgs
           outcome == IF served THEN "ok" ELSE "terminal"
           freed   == [peer EXCEPT
                          !.global_permits = ReleasePermit(@),
                          !.bot_permits[w.bot_id] = ReleasePermit(@),
                          !.workers[i].st = IF served THEN "ok" ELSE "err"]
       IN  /\ fs' = IF served
                    THEN WriteFile(fs, w.temp_path, tg[w.telegram_file_id].data)
                    ELSE fs
           /\ peer' = IF served
                      THEN [freed EXCEPT !.temp_files =
                                Append(@, [index |-> w.index, path |-> w.temp_path])]
                      ELSE [freed EXCEPT !.first_error =
                                IF @ = None THEN DownloadError(outcome) ELSE @]
    /\ UNCHANGED <<bots, cfg, files, tg, token_cache, up, del, dl, ren, workers,
                   global_permits, bot_permits, next_id, backoff, budget>>

\* service.rs:461-554 for the second invocation
PeerFinish ==
    /\ peer.pc = "workers"
    /\ \A i \in DOMAIN peer.workers : peer.workers[i].st \in {"ok", "err"}
    /\ LET temps  == {peer.temp_files[k].path : k \in DOMAIN peer.temp_files}
           merged == Merged(fs, peer.temp_files)
       IN  IF peer.first_error # None
           THEN /\ fs' = RemoveFiles(fs, temps)
                /\ peer' = Emit([peer EXCEPT !.pc = "done", !.result = peer.first_error],
                                 <<FailedEv(peer.first_error)>>)
           ELSE IF HashMismatch(Sha256(merged), peer.sha256)
           THEN /\ fs' = RemoveFiles(WriteFile(fs, peer.out, merged),
                                     temps \cup {peer.out})
                /\ peer' = Emit([peer EXCEPT !.pc = "done", !.result = "IntegrityFailed"],
                                 <<Ev("Merging"), Ev("Verifying"),
                                   FailedEv("IntegrityFailed")>>)
           ELSE /\ fs' = RemoveFiles(WriteFile(fs, peer.out, merged), temps)
                /\ peer' = Emit([peer EXCEPT !.pc = "done", !.result = "Ok"],
                                 <<Ev("Merging"), Ev("Verifying"), Ev("Completed")>>)
    /\ UNCHANGED <<bots, cfg, files, tg, token_cache, up, del, dl, ren, workers,
                   global_permits, bot_permits, next_id, backoff, budget>>

---------------------------------------------------------------------------
(* rename_file, service.rs:561-563 and storage.rs:78-105 *)

RenameNames == Paths \cup {"c"}

\* renames onto a name that is already taken
RenameTargetTaken_never(new_path) == FALSE

\* storage.rs:79-84: count_documents({original_name: new_path}) > 0
RenameTargetTaken(new_path) == FirstNamed(new_path) # 0

\* storage.rs:79-89: the count query; the update is a second round trip to the
\* store, so a commit of a running upload can fall between the two
RenameCount(old_path, new_path) ==
    /\ ren.pc \in {"idle", "done"}
    /\ budget.runs > 0
    /\ budget' = [budget EXCEPT !.runs = @ - 1]
    /\ ren' = IF RenameTargetTaken(new_path)
              THEN [pc |-> "done", old |-> old_path, new |-> new_path,
                    result |-> "Unknown: File already exists"]
              ELSE [pc |-> "update", old |-> old_path, new |-> new_path,
                    result |-> None]
    /\ UNCHANGED <<peer, backoff, fs, bots, cfg, files, tg, token_cache, up, del, dl, workers,
                   global_permits, bot_permits, next_id>>

\* storage.rs:91-104: update_one sets original_name on the first record named
\* old_path; modified_count is 0 when none matched or the name did not change
RenameUpdate ==
    /\ ren.pc = "update"
    /\ LET k == FirstNamed(ren.old)
       IN  IF k = 0 \/ ren.old = ren.new
           THEN /\ ren' = [ren EXCEPT !.pc = "done", !.result = "FileNotFound"]
                /\ UNCHANGED files
           ELSE /\ ren' = [ren EXCEPT !.pc = "done", !.result = "Ok"]
                /\ files' = [files EXCEPT ![k].original_name = ren.new]
    /\ UNCHANGED <<peer, backoff, fs, bots, cfg, tg, token_cache, up, del, dl, workers,
                   global_permits, bot_permits, next_id, budget>>

---------------------------------------------------------------------------
(* Environment: another process rewrites the source file during an upload *)

Rewrites(content) ==
    {[content EXCEPT ![j] = 0] : j \in DOMAIN content}
        \cup (IF content = <<>> THEN {} ELSE {SubSeq(content, 1, Len(content) - 1)})
        \cup {Append(content, 0)}

ModifySource(content) ==
    /\ up.pc \in {"hashing", "workers"}
    /\ budget.mods > 0
    /\ content \in Rewrites(fs[up.path])
    /\ content # fs[up.path]
    /\ fs' = [fs EXCEPT ![up.path] = content]
    /\ budget' = [budget EXCEPT !.mods = @ - 1]
    /\ UNCHANGED <<peer, backoff, ren, bots, cfg, files, tg, token_cache, up, del, dl, workers,
                   global_permits, bot_permits, next_id>>

\* the caller drops the receiving end of the channel it passed, or is about to
\* pass, to upload_file
DropUploadReceiver ==
    /\ up.pc # "done"
    /\ up.rx = "open"
    /\ up.pc = "idle" => (NoInvocationRunning /\ budget.runs > 0)
    /\ up' = [up EXCEPT !.rx = "dropped"]
    /\ UNCHANGED <<peer, backoff, fs, bots, cfg, files, tg, token_cache, del, dl, ren, workers,
                   global_permits, bot_permits, next_id, budget>>

\* the same for download_file
DropDownloadReceiver ==
    /\ dl.pc # "done"
    /\ dl.rx = "open"
    /\ dl.pc = "idle" => (NoInvocationRunning /\ budget.runs > 0)
    /\ dl' = [dl EXCEPT !.rx = "dropped"]
    /\ UNCHANGED <<peer, backoff, fs, bots, cfg, files, tg, token_cache, up, del, ren, workers,
                   global_permits, bot_permits, next_id, budget>>

\* another client of the database switches a bot of the roster on or off
SetActive(k, flag) ==
    /\ k \in DOMAIN bots
    /\ bots[k].active # flag
    /\ budget.mods > 0
    /\ budget' = [budget EXCEPT !.mods = @ - 1]
    /\ bots' = [bots EXCEPT ![k].active = flag]
    /\ UNCHANGED <<peer, backoff, fs, cfg, files, tg, token_cache, up, del, dl, ren, workers,
                   global_permits, bot_permits, next_id>>

\* service.rs:30-56, bot_manager.rs:19-24: the process is started again on the
\* same database: a new service with an empty token cache
Restart ==
    /\ NoInvocationRunning
    /\ token_cache # <<>>
    /\ token_cache' = <<>>
    /\ up' = IdleUp
    /\ del' = IdleDel
    /\ dl' = IdleDl
    /\ ren' = IdleRen
    /\ workers' = <<>>
    /\ UNCHANGED <<peer, backoff, fs, bots, cfg, files, tg, global_permits, bot_permits, next_id,
                   budget>>

---------------------------------------------------------------------------
(* Initial states: the service after TgCloudService::new *)

Bot(id, count, active) ==
    [bot_id |-> id, token |-> "token_" \o id, upload_count |-> count, active |-> active]

\* bot rosters, in the order the store returns them
\* the service right after construction, before any invocation
Fresh(n, roster, config, b) ==
    /\ fs = [p \in Paths |-> Canon(p, n)]
    /\ bots = roster
    /\ cfg = config
    /\ files = <<>>
    /\ tg = <<>>
    /\ token_cache = <<>>
    /\ up = IdleUp
    /\ del = IdleDel
    /\ dl = IdleDl
    /\ ren = IdleRen
    /\ workers = <<>>
    /\ global_permits = 0
    /\ bot_permits = <<>>
    /\ next_id = 1
    /\ peer = IdlePeer
    /\ backoff = NoBackoff
    /\ budget = b

\* One upload_file invocation under failures of the blob tier and of the
\* metadata store and rewrites of the source file
Init ==
    \E n \in 0..MaxLen,
       roster \in { <<Bot("b1", 0, TRUE), Bot("b2", 0, TRUE)>>,
                    <<Bot("b1", 0, FALSE)>> } :
        Fresh(n, roster, [G |-> 2, P |-> 2],
              [runs |-> 1, faults |-> MaxFaults, mods |-> MaxMods])

Next ==
    \/ \E p \in UploadPaths : UploadStart(p)
    \/ UploadHash
    \/ \E i \in 0..MaxLen : AcquireGlobal(i)
    \/ \E i \in 0..MaxLen : AcquireBot(i)
    \/ \E i \in 0..MaxLen, outcome \in UploadOutcomes : UploadAttempt(i, outcome)
    \/ \E save_ok \in BOOLEAN, failed \in SUBSET (DOMAIN tg) : UploadFinish(save_ok, failed)
    \/ \E content \in Rewrites(IF up.path \in DOMAIN fs THEN fs[up.path] ELSE <<>>) :
           ModifySource(content)

Spec == Init /\ [][Next]_vars

\* Two upload_file invocations one after the other on a healthy blob tier:
\* what the namespace looks like after re-uploading a path
InitNames ==
    \E n \in 0..MaxLen :
        Fresh(n, <<Bot("b1", 0, TRUE), Bot("b2", 0, TRUE)>>, [G |-> 2, P |-> 2],
              [runs |-> MaxRuns, faults |-> 0, mods |-> 0])

NextNames ==
    \/ \E p \in UploadPaths : UploadStart(p)
    \/ UploadHash
    \/ \E i \in 0..MaxLen : AcquireGlobal(i)
    \/ \E i \in 0..MaxLen : AcquireBot(i)
    \/ \E i \in 0..MaxLen : UploadAttempt(i, "ok")
    \/ \E save_ok \in BOOLEAN, failed \in SUBSET (DOMAIN tg) : UploadFinish(save_ok, failed)

SpecNames == InitNames /\ [][NextNames]_vars

\* Uploads on a healthy blob tier followed by delete_file invocations whose
\* deleteMessage calls may fail
InitDelete ==
    \E n \in 0..MaxLen :
        Fresh(n, <<Bot("b1", 0, TRUE), Bot("b2", 0, TRUE)>>, [G |-> 2, P |-> 2],
              [runs |-> MaxRuns + 1, faults |-> MaxFaults, mods |-> 0])

NextDelete ==
    \/ \E p \in Paths : UploadStart(p)
    \/ UploadHash
    \/ \E i \in 0..MaxLen : AcquireGlobal(i)
    \/ \E i \in 0..MaxLen : AcquireBot(i)
    \/ \E i \in 0..MaxLen : UploadAttempt(i, "ok")
    \/ UploadFinish(TRUE, {})
    \/ \E p \in Paths : DeleteStart(p)
    \/ \E i \in 0..MaxLen, outcome \in {"ok", "fail"} : DeleteAttempt(i, outcome)
    \/ \E store_ok \in BOOLEAN : DeleteFinish(store_ok)

SpecDelete == InitDelete /\ [][NextDelete]_vars

\* An upload on a healthy blob tier, of a source file that may be rewritten
\* meanwhile, followed by a download_file invocation whose blob-tier and file
\* operations may fail
InitDownload ==
    \E n \in 0..MaxLen :
        Fresh(n, <<Bot("b1", 0, TRUE), Bot("b2", 0, TRUE)>>, [G |-> 2, P |-> 2],
              [runs |-> 2, faults |-> MaxFaults, mods |-> MaxMods])

NextDownload ==
    \/ \E p \in Paths : UploadStart(p)
    \/ UploadHash
    \/ \E i \in 0..MaxLen : AcquireGlobal(i)
    \/ \E i \in 0..MaxLen : AcquireBot(i)
    \/ \E i \in 0..MaxLen : UploadAttempt(i, "ok")
    \/ UploadFinish(TRUE, {})
    \/ \E content \in Rewrites(IF up.path \in DOMAIN fs THEN fs[up.path] ELSE <<>>) :
           ModifySource(content)
    \/ \E p \in Paths, out \in OutPaths : DownloadStart(p, out)
    \/ \E i \in 0..MaxLen, outcome \in DownloadOutcomes : DownloadAttempt(i, outcome)
    \/ \E io_ok \in BOOLEAN : DownloadFinish(io_ok)

SpecDownload == InitDownload /\ [][NextDownload]_vars

\* Uploads on a healthy blob tier and rename_file invocations, which may run
\* while an upload is in progress
InitRename ==
    \E n \in 0..MaxLen :
        Fresh(n, <<Bot("b1", 0, TRUE), Bot("b2", 0, TRUE)>>, [G |-> 2, P |-> 2],
              [runs |-> MaxRuns + 1, faults |-> 0, mods |-> 0])

NextRename ==
    \/ \E p \in Paths : UploadStart(p)
    \/ UploadHash
    \/ \E i \in 0..MaxLen : AcquireGlobal(i)
    \/ \E i \in 0..MaxLen : AcquireBot(i)
    \/ \E i \in 0..MaxLen : UploadAttempt(i, "ok")
    \/ UploadFinish(TRUE, {})
    \/ \E old_path, new_path \in RenameNames : RenameCount(old_path, new_path)
    \/ RenameUpdate

SpecRename == InitRename /\ [][NextRename]_vars

\* the failures the blob tier may answer in a behaviour of SpecRetry: enough
\* for one worker to exhaust its attempts while another succeeds on its fourth
RetryFaults == MAX_RETRIES + 3

\* One upload_file invocation against a blob tier that answers 429 as often as
\* it likes: the retry wrapper around each chunk's sendDocument
InitRetry ==
    \E n \in 0..MaxLen :
        Fresh(n, <<Bot("b1", 0, TRUE), Bot("b2", 0, TRUE)>>, [G |-> 2, P |-> 2],
              [runs |-> 1, faults |-> RetryFaults, mods |-> 0])

NextRetry ==
    \/ \E p \in Paths : UploadStart(p)
    \/ UploadHash
    \/ \E i \in 0..MaxLen : AcquireGlobal(i)
    \/ \E i \in 0..MaxLen : AcquireBot(i)
    \/ \E i \in 0..MaxLen, outcome \in {"ok", "transient"} : UploadAttempt(i, outcome)
    \/ UploadFinish(TRUE, {})

SpecRetry == InitRetry /\ [][NextRetry]_vars

\* An upload and a download whose caller may drop the event receiver at any
\* point, with failures of the blob tier and of the metadata insert
InitSink ==
    \E n \in 0..MaxLen,
       roster \in { <<Bot("b1", 0, TRUE), Bot("b2", 0, TRUE)>>,
                    <<Bot("b1", 0, FALSE)>> } :
        Fresh(n, roster, [G |-> 2, P |-> 2],
              [runs |-> 2, faults |-> 1, mods |-> 0])

NextSink ==
    \/ \E p \in UploadPaths : UploadStart(p)
    \/ UploadHash
    \/ \E i \in 0..MaxLen : AcquireGlobal(i)
    \/ \E i \in 0..MaxLen : AcquireBot(i)
    \/ \E i \in 0..MaxLen, outcome \in {"ok", "terminal"} : UploadAttempt(i, outcome)
    \/ \E save_ok \in BOOLEAN : UploadFinish(save_ok, {})
    \/ \E p \in Paths, out \in OutPaths : DownloadStart(p, out)
    \/ \E i \in 0..MaxLen, outcome \in {"ok", "terminal"} : DownloadAttempt(i, outcome)
    \/ DownloadFinish(TRUE)
    \/ DropUploadReceiver
    \/ DropDownloadReceiver

SpecSink == InitSink /\ [][NextSink]_vars

\* One transfer after the other (an upload, then a download or a delete of a
\* file of up to three chunks) under every small gate configuration
InitGates ==
    \E n \in 0..GateLen,
       roster \in { <<Bot("b1", 0, TRUE), Bot("b2", 0, TRUE)>>,
                    <<Bot("b1", 0, TRUE)>> },
       G \in 1..3, P \in 1..2 :
        Fresh(n, roster, [G |-> G, P |-> P],
              [runs |-> 2, faults |-> 1, mods |-> 0])

NextGates ==
    \/ UploadStart("a")
    \/ UploadHash
    \/ \E i \in 0..GateLen : AcquireGlobal(i)
    \/ \E i \in 0..GateLen : AcquireBot(i)
    \/ \E i \in 0..GateLen : UploadAttempt(i, "ok")
    \/ UploadFinish(TRUE, {})
    \/ DeleteStart("a")
    \/ \E i \in 0..GateLen, outcome \in {"ok", "fail"} : DeleteAttempt(i, outcome)
    \/ DeleteFinish(TRUE)
    \/ DownloadStart("a", "q")
    \/ \E i \in 0..GateLen, outcome \in {"ok", "terminal"} : DownloadAttempt(i, outcome)
    \/ DownloadFinish(TRUE)

SpecGates == InitGates /\ [][NextGates]_vars

\* tokio runs every spawned task, and every blob-tier call returns
FairWorkers ==
    \A i \in 0..GateLen :
        /\ WF_vars(AcquireGlobal(i))
        /\ WF_vars(AcquireBot(i))
        /\ WF_vars(UploadAttempt(i, "ok"))
        /\ WF_vars(\E outcome \in {"ok", "fail"} : DeleteAttempt(i, outcome))
        /\ WF_vars(\E outcome \in {"ok", "terminal"} : DownloadAttempt(i, outcome))

SpecGatesFair == SpecGates /\ FairWorkers

\* One upload_file invocation against a blob tier whose failures are all of
\* classes that are not to be retried
InitClassify ==
    \E n \in 0..MaxLen :
        Fresh(n, <<Bot("b1", 0, TRUE), Bot("b2", 0, TRUE)>>, [G |-> 2, P |-> 2],
              [runs |-> 1, faults |-> MaxFaults + 1, mods |-> 0])

NextClassify ==
    \/ \E p \in Paths : UploadStart(p)
    \/ UploadHash
    \/ \E i \in 0..MaxLen : AcquireGlobal(i)
    \/ \E i \in 0..MaxLen : AcquireBot(i)
    \/ \E i \in 0..MaxLen, outcome \in {"ok"} \cup TerminalOutcomes :
           UploadAttempt(i, outcome)
    \/ \E failed \in SUBSET (DOMAIN tg) : UploadFinish(TRUE, failed)

SpecClassify == InitClassify /\ [][NextClassify]_vars

\* An upload on a healthy blob tier followed by a download_file whose failures
\* are all transient: network errors of the URL resolution and of the body
\* stream, and 429 answers
InitStream ==
    \E n \in 0..MaxLen :
        Fresh(n, <<Bot("b1", 0, TRUE), Bot("b2", 0, TRUE)>>, [G |-> 2, P |-> 2],
              [runs |-> 2, faults |-> MaxFaults, mods |-> 0])

NextStream ==
    \/ \E p \in Paths : UploadStart(p)
    \/ UploadHash
    \/ \E i \in 0..MaxLen : AcquireGlobal(i)
    \/ \E i \in 0..MaxLen : AcquireBot(i)
    \/ \E i \in 0..MaxLen : UploadAttempt(i, "ok")
    \/ UploadFinish(TRUE, {})
    \/ \E p \in Paths, out \in OutPaths : DownloadStart(p, out)
    \/ \E i \in 0..MaxLen, outcome \in {"ok", "transient", "resolve_network", "midstream"} :
           DownloadAttempt(i, outcome)
    \/ DownloadFinish(TRUE)

SpecStream == InitStream /\ [][NextStream]_vars

\* rosters of up to three bots, in every order the store may hold them
Rosters ==
    LET ids == {"b1", "b2", "b3"}
        recs == [bot_id : ids, upload_count : 0..1, active : BOOLEAN]
        seqs == UNION {[1..k -> recs] : k \in 1..3}
    IN  {[i \in DOMAIN r |-> Bot(r[i].bot_id, r[i].upload_count, r[i].active)] :
            r \in {q \in seqs : \A i, j \in DOMAIN q :
                                  q[i].bot_id = q[j].bot_id => i = j}}

\* One upload of a file of up to three chunks for every roster, with a blob
\* tier and a metadata store that do not fail
InitBots ==
    \E n \in 0..GateLen, roster \in Rosters :
        Fresh(n, roster, [G |-> 2, P |-> 2], [runs |-> 1, faults |-> 0, mods |-> 0])

NextBots ==
    \/ UploadStart("a")
    \/ UploadHash
    \/ \E i \in 0..GateLen : AcquireGlobal(i)
    \/ \E i \in 0..GateLen : AcquireBot(i)
    \/ \E i \in 0..GateLen : UploadAttempt(i, "ok")
    \/ UploadFinish(TRUE, {})

SpecBots == InitBots /\ [][NextBots]_vars

\* An upload, then a download or a delete of the file, on a healthy blob tier,
\* while the roster changes in the database and the process may be restarted
InitRoster ==
    \E n \in 0..MaxLen :
        Fresh(n, <<Bot("b1", 0, TRUE), Bot("b2", 0, TRUE)>>, [G |-> 2, P |-> 2],
              [runs |-> 2, faults |-> 0, mods |-> MaxMods + 1])

NextRoster ==
    \/ UploadStart("a")
    \/ UploadHash
    \/ \E i \in 0..MaxLen : AcquireGlobal(i)
    \/ \E i \in 0..MaxLen : AcquireBot(i)
    \/ \E i \in 0..MaxLen : UploadAttempt(i, "ok")
    \/ UploadFinish(TRUE, {})
    \/ DeleteStart("a")
    \/ \E i \in 0..MaxLen : DeleteAttempt(i, "ok")
    \/ DeleteFinish(TRUE)
    \/ DownloadStart("a", "q")
    \/ \E i \in 0..MaxLen : DownloadAttempt(i, "ok")
    \/ DownloadFinish(TRUE)
    \/ \E k \in 1..2, flag \in BOOLEAN : SetActive(k, flag)
    \/ Restart

SpecRoster == InitRoster /\ [][NextRoster]_vars

\* An upload on a healthy blob tier, then a download_file over an existing file,
\* whose blob-tier and file operations may fail
InitOutput ==
    \E n \in 0..MaxLen :
        Fresh(n, <<Bot("b1", 0, TRUE), Bot("b2", 0, TRUE)>>, [G |-> 2, P |-> 2],
              [runs |-> 2, faults |-> MaxFaults, mods |-> 0])

NextOutput ==
    \/ UploadStart("a")
    \/ UploadHash
    \/ \E i \in 0..MaxLen : AcquireGlobal(i)
    \/ \E i \in 0..MaxLen : AcquireBot(i)
    \/ \E i \in 0..MaxLen : UploadAttempt(i, "ok")
    \/ UploadFinish(TRUE, {})
    \/ DownloadStart("a", "b")
    \/ \E i \in 0..MaxLen, outcome \in DownloadOutcomes : DownloadAttempt(i, outcome)
    \/ \E io_ok \in BOOLEAN : DownloadFinish(io_ok)

SpecOutput == InitOutput /\ [][NextOutput]_vars

\* the invocations of a behaviour of SpecRace: two uploads, one delete_file and
\* two rename_file
RaceRuns == 5

\* Uploads of paths whose names are not taken, on a healthy blob tier, then a
\* delete_file of one name while rename_file invocations run on the same store
InitRace ==
    \E n \in 0..MaxLen :
        Fresh(n, <<Bot("b1", 0, TRUE), Bot("b2", 0, TRUE)>>, [G |-> 2, P |-> 2],
              [runs |-> RaceRuns, faults |-> 0, mods |-> 0])

NextRace ==
    \/ \E p \in Paths : FirstNamed(p) = 0 /\ UploadStart(p)
    \/ UploadHash
    \/ \E i \in 0..MaxLen : AcquireGlobal(i)
    \/ \E i \in 0..MaxLen : AcquireBot(i)
    \/ \E i \in 0..MaxLen : UploadAttempt(i, "ok")
    \/ UploadFinish(TRUE, {})
    \/ DeleteStart("a")
    \/ \E i \in 0..MaxLen : DeleteAttempt(i, "ok")
    \/ DeleteFinish(TRUE)
    \/ \E old_path, new_path \in RenameNames :
           del.pc = "workers" /\ RenameCount(old_path, new_path)
    \/ RenameUpdate

SpecRace == InitRace /\ [][NextRace]_vars

\* the failures the blob tier may answer in a behaviour of SpecTerm: enough for
\* two workers to exhaust their attempts
TermFaults == 2 * MAX_RETRIES

\* An upload and then a download or a delete, against a blob tier that answers
\* each call with success, a transient or a terminal failure
InitTerm ==
    \E n \in 0..MaxLen :
        Fresh(n, <<Bot("b1", 0, TRUE), Bot("b2", 0, TRUE)>>, [G |-> 2, P |-> 2],
              [runs |-> 2, faults |-> TermFaults, mods |-> 0])

NextTerm ==
    \/ UploadStart("a")
    \/ UploadHash
    \/ \E i \in 0..MaxLen : AcquireGlobal(i)
    \/ \E i \in 0..MaxLen : AcquireBot(i)
    \/ \E i \in 0..MaxLen, outcome \in {"ok", "transient", "terminal"} :
           UploadAttempt(i, outcome)
    \/ \E save_ok \in BOOLEAN : UploadFinish(save_ok, {})
    \/ DeleteStart("a")
    \/ \E i \in 0..MaxLen, outcome \in {"ok", "fail"} : DeleteAttempt(i, outcome)
    \/ \E store_ok \in BOOLEAN : DeleteFinish(store_ok)
    \/ DownloadStart("a", "q")
    \/ \E i \in 0..MaxLen, outcome \in {"ok", "transient", "terminal"} :
           DownloadAttempt(i, outcome)
    \/ \E io_ok \in BOOLEAN : DownloadFinish(io_ok)

SpecTerm == InitTerm /\ [][NextTerm]_vars

\* every spawned task is run, and every call to the blob tier, the file system
\* and the metadata store returns, with success or with an error
FairCalls ==
    /\ WF_vars(UploadHash)
    /\ WF_vars(\E save_ok \in BOOLEAN : UploadFinish(save_ok, {}))
    /\ WF_vars(\E store_ok \in BOOLEAN : DeleteFinish(store_ok))
    /\ WF_vars(\E io_ok \in BOOLEAN : DownloadFinish(io_ok))
    /\ \A i \in 0..MaxLen :
           /\ WF_vars(AcquireGlobal(i))
           /\ WF_vars(AcquireBot(i))
           /\ WF_vars(\E outcome \in {"ok", "transient", "terminal"} :
                          UploadAttempt(i, outcome))
           /\ WF_vars(\E outcome \in {"ok", "fail"} : DeleteAttempt(i, outcome))
           /\ WF_vars(\E outcome \in {"ok", "transient", "terminal"} :
                          DownloadAttempt(i, outcome))

SpecTermFair == SpecTerm /\ FairCalls

\* A with_retry call one of whose attempts fails with a retryable error
InitBackoff ==
    Fresh(0, <<Bot("b1", 0, TRUE)>>, [G |-> 2, P |-> 2],
          [runs |-> 0, faults |-> 0, mods |-> 0])

NextBackoff ==
    \E attempt \in 0..(MAX_RETRIES - 1) :
        \E jitter \in JitterDraws(attempt) : BackoffSleep(attempt, jitter)

SpecBackoff == InitBackoff /\ [][NextBackoff]_vars

\* An upload, then a download or a delete of the file while a second
\* download_file of it runs on the same service, on a healthy blob tier, with
\* one permit per bot and one or two global permits
InitPeers ==
    \E n \in 0..MaxLen, G \in 1..2 :
        Fresh(n, <<Bot("b1", 0, TRUE), Bot("b2", 0, TRUE)>>, [G |-> G, P |-> 1],
              [runs |-> 3, faults |-> 0, mods |-> 0])

NextPeers ==
    \/ UploadStart("a")
    \/ UploadHash
    \/ \E i \in 0..MaxLen : AcquireGlobal(i)
    \/ \E i \in 0..MaxLen : AcquireBot(i)
    \/ \E i \in 0..MaxLen : UploadAttempt(i, "ok")
    \/ UploadFinish(TRUE, {})
    \/ DeleteStart("a")
    \/ \E i \in 0..MaxLen : DeleteAttempt(i, "ok")
    \/ DeleteFinish(TRUE)
    \/ DownloadStart("a", "q")
    \/ \E i \in 0..MaxLen : DownloadAttempt(i, "ok")
    \/ DownloadFinish(TRUE)
    \/ PeerStart("a", "r")
    \/ \E i \in 0..MaxLen : PeerAcquireGlobal(i)
    \/ \E i \in 0..MaxLen : PeerAcquireBot(i)
    \/ \E i \in 0..MaxLen : PeerAttempt(i)
    \/ PeerFinish

SpecPeers == InitPeers /\ [][NextPeers]_vars

---------------------------------------------------------------------------
(* Properties *)

SomeWorkerFailed == \E i \in DOMAIN workers : workers[i].st = "err"

UploadReturned == up.pc = "done"

\* messages the blob tier stored during the current invocation, over all attempts
PostedByUpload == (up.msg0 + 1)..Len(tg)

\* the stored payloads of a record's chunks, concatenated in the record's order
StoredPayload(f) ==
    Concat([k \in DOMAIN f.chunks |->
               IF f.chunks[k].message_id \in DOMAIN tg
               THEN tg[f.chunks[k].message_id].data ELSE <<-1>>])

\* C1: a FileMetadata record is inserted only when every one of the total_chunks
\* workers has returned success, and then upload_file returns success; an
\* upload_file in which a worker failed returns an error and leaves the store
\* as it was.
C1_MetadataOnlyAfterAllWorkersOk ==
    /\ [][files' # files =>
            /\ up.pc = "workers"
            /\ DOMAIN workers = 0..(up.total_chunks - 1)
            /\ \A i \in DOMAIN workers : workers[i].st = "ok"
            /\ up'.result = "Ok"]_vars
    /\ [][(up.pc = "workers" /\ SomeWorkerFailed /\ up'.pc = "done") =>
            /\ up'.result \notin {"Ok", None}
            /\ files' = files]_vars

C1_Witness_CommitAfterTwoWorkers ==
    /\ UploadReturned
    /\ up.result = "Ok"
    /\ up.total_chunks = 2
    /\ Len(files) = 1

\* C2 (as claimed): after any upload_file that returns failure, no blob posted
\* by that upload remains in the blob tier.
C2_RollbackComplete ==
    (UploadReturned /\ up.result # "Ok") =>
        \A m \in PostedByUpload : ~tg[m].live

\* C3: after an upload_file that returns success exactly one record carries the
\* generated file_id, and every chunk of it names a message that is present in
\* the blob tier and was posted by the chunk's bot.
C3_SuccessMeansOneRecordWithLiveBlobs ==
    (UploadReturned /\ up.result = "Ok") =>
        /\ Cardinality({k \in DOMAIN files : files[k].file_id = up.file_id}) = 1
        /\ \A k \in DOMAIN files : files[k].file_id = up.file_id =>
               \A j \in DOMAIN files[k].chunks :
                   LET c == files[k].chunks[j]
                   IN  /\ c.message_id \in LiveMsgs
                       /\ tg[c.message_id].token = TokenOf(bots, c.bot_id)

C3_Witness_SuccessAfterRetry ==
    /\ UploadReturned
    /\ up.result = "Ok"
    /\ up.total_chunks = 2
    /\ \E i \in DOMAIN workers : workers[i].attempt > 0

\* C4 (as claimed): no two persisted records have the same original_name.
C4_NamesUnique ==
    \A i, j \in DOMAIN files :
        i # j => files[i].original_name # files[j].original_name

\* C5: every persisted record has total_chunks chunks, chunk i at position i,
\* and chunk sizes that add up to size, whatever the completion order.
C5_ChunksIndexedAndSized ==
    \A k \in DOMAIN files :
        LET f == files[k]
        IN  /\ Len(f.chunks) = f.total_chunks
            /\ \A i \in 0..(f.total_chunks - 1) : f.chunks[i + 1].index = i
            /\ SumSeq([j \in DOMAIN f.chunks |-> f.chunks[j].size]) = f.size

C5_Witness_OutOfOrderCompletion ==
    /\ UploadReturned
    /\ up.result = "Ok"
    /\ Len(up.chunks) = 2
    /\ up.chunks[1].index = 1

\* the least k with k * CHUNK_SIZE >= n
CeilOfRatio(n) ==
    CHOOSE k \in 0..(n + 1) :
        k * CHUNK_SIZE >= n /\ \A j \in 0..(k - 1) : j * CHUNK_SIZE < n

\* C6: total_chunks = max(1, ceil(N / CHUNK_SIZE)); worker i covers bytes
\* [i*CHUNK_SIZE, min((i+1)*CHUNK_SIZE, N)) and, on an unchanged source, stores
\* exactly those bytes; N = 0 gives one empty chunk, N = CHUNK_SIZE one chunk
\* on the single-bot path, N = CHUNK_SIZE + 1 two chunks on the multi-bot path.
C6_ChunkPlan ==
    up.pc = "workers" =>
        LET N == up.total_size
        IN  /\ up.total_chunks = IF CeilOfRatio(N) > 1 THEN CeilOfRatio(N) ELSE 1
            /\ DOMAIN workers = 0..(up.total_chunks - 1)
            /\ \A i \in DOMAIN workers :
                   /\ workers[i].offset = i * CHUNK_SIZE
                   /\ workers[i].offset + workers[i].len = Min((i + 1) * CHUNK_SIZE, N)
            /\ N = 0 => (up.total_chunks = 1 /\ workers[0].len = 0)
            /\ N = CHUNK_SIZE => (up.total_chunks = 1 /\ Len(up.token_map) = 1)
            /\ N = CHUNK_SIZE + 1 => (up.total_chunks = 2 /\ up.token_map = ActiveBots)
            /\ budget.mods = MaxMods =>
                   \A k \in DOMAIN up.chunks :
                       LET c == up.chunks[k]
                       IN  tg[c.message_id].data =
                               [b \in 1..(Min((c.index + 1) * CHUNK_SIZE, N)
                                              - c.index * CHUNK_SIZE) |->
                                    fs[up.path][c.index * CHUNK_SIZE + b]]

C6_Witness_TwoChunksMultiBot ==
    /\ up.pc = "workers"
    /\ up.total_size = CHUNK_SIZE + 1
    /\ up.total_chunks = 2
    /\ Len(up.chunks) = 2
    /\ budget.mods = MaxMods

\* C7 (as claimed): for every persisted record, sha256 is the digest of the
\* stored chunk payloads concatenated in index order.
C7_DigestMatchesStoredPayload ==
    \A k \in DOMAIN files : files[k].sha256 = Sha256(StoredPayload(files[k]))

DeleteReturned == del.pc = "done"

FailedDeleteWorkers == {i \in DOMAIN workers : workers[i].st = "err"}

\* C8: delete_file removes the metadata record only when every chunk's delete
\* worker has finished with success; when a worker failed it returns
\* DeleteFailed, reports the number of failed chunks out of the number of
\* chunks, and leaves the metadata store as it was.
C8_MetadataRemovedOnlyAfterAllDeletes ==
    /\ [][(del.pc = "workers" /\ files' # files) =>
            /\ DOMAIN workers = 0..(Len(del.chunks) - 1)
            /\ \A i \in DOMAIN workers : workers[i].st = "ok"
            /\ del'.result = "Ok"]_vars
    /\ [][(del.pc = "workers" /\ FailedDeleteWorkers # {} /\ del'.pc = "done") =>
            /\ del'.result = "DeleteFailed"
            /\ del'.report = <<Cardinality(FailedDeleteWorkers),
                               Cardinality(DOMAIN workers)>>
            /\ files' = files]_vars

C8_Witness_OneOfTwoFailed ==
    /\ DeleteReturned
    /\ del.result = "DeleteFailed"
    /\ del.report = <<1, 2>>
    /\ Len(files) >= 1

\* C9 (as claimed): after a delete_file(name) that returns success no record is
\* named name and every blob of the deleted record is gone from the blob tier;
\* after a delete_file that fails for an existing file its record is still
\* there.
C9_DeletePostcondition ==
    /\ (DeleteReturned /\ del.result = "Ok") =>
           /\ FirstNamed(del.path) = 0
           /\ \A k \in DOMAIN del.chunks : del.chunks[k].message_id \notin LiveMsgs
    /\ (DeleteReturned /\ del.result # "Ok" /\ del.file_id # 0) =>
           \E k \in DOMAIN files : files[k].file_id = del.file_id

DownloadReturned == dl.pc = "done"

\* C10: whenever download_file returns success the output file exists at
\* out_path and its digest is the sha256 of the record that was loaded.
C10_SuccessMeansVerifiedOutput ==
    (DownloadReturned /\ dl.result = "Ok") =>
        /\ dl.out \in DOMAIN fs
        /\ \E k \in DOMAIN files :
               /\ files[k].file_id = dl.file_id
               /\ Sha256(fs[dl.out]) = files[k].sha256

C10_Witness_VerifiedTwoChunkDownload ==
    /\ DownloadReturned
    /\ dl.result = "Ok"
    /\ Len(dl.temp_files) = 2
    /\ dl.temp_files[1].index = 1
    /\ Len(fs[dl.out]) = CHUNK_SIZE + 1

\* number of events of a status in an event sequence
CountStatus(events, status) ==
    Cardinality({k \in DOMAIN events : events[k].status = status})

\* C11: when all chunks were fetched and merged but the digest of the merged
\* output differs from the stored sha256, download_file returns
\* IntegrityFailed, neither the output file nor any temp file is left, and
\* exactly one Failed event, carrying the integrity error, and no Completed
\* event was emitted.
C11_IntegrityFailureCleansUp ==
    [][(/\ dl.pc = "workers"
        /\ dl'.pc = "done"
        /\ dl.first_error = None
        /\ dl'.result # "IoError"
        /\ Sha256(Merged(fs, dl.temp_files)) # dl.sha256) =>
            /\ dl'.result = "IntegrityFailed"
            /\ dl.out \notin DOMAIN fs'
            /\ \A i \in DOMAIN workers : workers[i].temp_path \notin DOMAIN fs'
            /\ CountStatus(dl'.events, "Failed") = 1
            /\ dl'.events[Len(dl'.events)] = FailedEv("IntegrityFailed")
            /\ CountStatus(dl'.events, "Completed") = 0]_vars

C11_Witness_MismatchAfterTwoChunks ==
    /\ DownloadReturned
    /\ dl.result = "IntegrityFailed"
    /\ Len(dl.temp_files) = 2
    /\ dl.out \notin DOMAIN fs

\* C12: round trip.  For a source file P that nobody rewrites, when
\* upload_file(P) reported Completed and download_file(P, Q) returns success,
\* the bytes at Q are the bytes of P, and such a download never fails
\* verification, whatever the order in which the upload and the download
\* workers finished.
C12_RoundTrip ==
    (DownloadReturned /\ dl.file_id # 0 /\ budget.mods = MaxMods) =>
        /\ dl.result = "Ok" => fs[dl.out] = fs[dl.path]
        /\ dl.result # "IntegrityFailed"

C12_Witness_BothOutOfOrder ==
    /\ DownloadReturned
    /\ dl.result = "Ok"
    /\ budget.mods = MaxMods
    /\ Len(dl.temp_files) = 2
    /\ dl.temp_files[1].index = 1
    /\ \E k \in DOMAIN files :
           /\ files[k].file_id = dl.file_id
           /\ files[k].chunks[1].message_id > files[k].chunks[2].message_id
    /\ fs[dl.out] = fs[dl.path]
    /\ Len(fs[dl.out]) = CHUNK_SIZE + 1

\* records of the store, before and after a step, that differ
ChangedRecords == {k \in DOMAIN files : k \in DOMAIN files' /\ files'[k] # files[k]}

\* C13: rename_file(old, new) returns an error and leaves every record as it
\* was when a record named new exists as it checks, or when no record named
\* old exists as it updates; when it returns success exactly one record, named
\* old before, has changed, and only in its original_name, which is now new.
C13_RenameContract ==
    /\ [][(ren.pc # "update" /\ ren' # ren) =>
            /\ files' = files
            /\ FirstNamed(ren'.new) # 0 =>
                   (ren'.pc = "done" /\ ren'.result \notin {"Ok", None})]_vars
    /\ [][(ren.pc = "update" /\ ren'.pc = "done") =>
            IF ren'.result = "Ok"
            THEN /\ Len(files') = Len(files)
                 /\ Cardinality(ChangedRecords) = 1
                 /\ \A k \in ChangedRecords :
                        /\ files[k].original_name = ren.old
                        /\ files'[k] = [files[k] EXCEPT !.original_name = ren.new]
            ELSE /\ files' = files
                 /\ ren'.result # None]_vars
    /\ [][(ren.pc = "update" /\ ren'.pc = "done" /\ FirstNamed(ren.old) = 0) =>
            ren'.result \notin {"Ok", None}]_vars

C13_Witness_RenamedTwoChunkFile ==
    /\ ren.pc = "done"
    /\ ren.result = "Ok"
    /\ \E k \in DOMAIN files :
           /\ files[k].original_name = ren.new
           /\ Len(files[k].chunks) = 2
    /\ FirstNamed(ren.old) = 0

\* an event sequence that opens with Started and closes with its only terminal
\* event
StartedFirstTerminalLast(events) ==
    /\ events # <<>>
    /\ events[1].status = "Started"
    /\ events[Len(events)].status \in {"Completed", "Failed"}
    /\ CountStatus(events, "Completed") + CountStatus(events, "Failed") = 1

\* C14 (as claimed): every upload_file and download_file invocation that has
\* returned emitted Started first and exactly one terminal event, Completed or
\* Failed, as its last event.
C14_StartedFirstTerminalLast ==
    /\ UploadReturned => StartedFirstTerminalLast(up.events)
    /\ DownloadReturned => StartedFirstTerminalLast(dl.events)

\* C15 (as claimed): every upload_file and download_file invocation that has
\* returned an error emitted exactly one Failed event.
C15_ErrorMeansOneFailed ==
    /\ (UploadReturned /\ up.result # "Ok") => CountStatus(up.events, "Failed") = 1
    /\ (DownloadReturned /\ dl.result # "Ok") => CountStatus(dl.events, "Failed") = 1

\* failed attempts over all workers, as the workers counted them
RECURSIVE FailedAttempts(_)
FailedAttempts(is) ==
    IF is = {} THEN 0
    ELSE LET i == CHOOSE x \in is : TRUE
         IN  workers[i].attempt + FailedAttempts(is \ {i})

\* C16: against a blob tier that answers 429 or success, a chunk's retry
\* wrapper makes its attempts one after another and stops at the first
\* success: a worker ends in RetryExhausted exactly after 5 failed attempts; a
\* worker that succeeds did so on attempt k <= 5 after k-1 failures, stored
\* one blob and reported no error; every failed answer of the blob tier is one
\* counted attempt and no attempt follows a success.
C16_RetryContract ==
    up.pc \in {"workers", "done"} =>
        /\ \A i \in DOMAIN workers :
               /\ workers[i].attempt <= 5
               /\ workers[i].st = "err" =>
                      (workers[i].attempt = 5 /\ up.first_error = "RetryExhausted")
               /\ workers[i].st = "ok" =>
                      /\ workers[i].attempt <= 4
                      /\ Cardinality({k \in DOMAIN up.chunks : up.chunks[k].index = i}) = 1
               /\ workers[i].st \notin {"ok", "err"} => workers[i].attempt <= 4
        /\ FailedAttempts(DOMAIN workers) = RetryFaults - budget.faults
        /\ Cardinality(PostedByUpload) =
               Cardinality({i \in DOMAIN workers : workers[i].st = "ok"})
        /\ (up.pc = "done" /\ \A i \in DOMAIN workers : workers[i].st = "ok") =>
               (up.result = "Ok" /\ up.first_error = None)
        /\ (up.pc = "done" /\ \E i \in DOMAIN workers : workers[i].st = "err") =>
               up.result = "RetryExhausted"

C16_Witness_FourthAttemptAndExhaustion ==
    /\ up.pc = "done"
    /\ up.result = "RetryExhausted"
    /\ \E i, j \in DOMAIN workers :
           /\ workers[i].st = "ok" /\ workers[i].attempt = 3
           /\ workers[j].st = "err" /\ workers[j].attempt = 5

\* s is an initial part of t
IsPrefix(s, t) == Len(s) <= Len(t) /\ s = SubSeq(t, 1, Len(s))

\* upload_file went through every step its inputs and the tiers call for
UploadRanToTheEnd ==
    IF up.path \notin DOMAIN fs THEN up.result = "IoError"
    ELSE IF ActiveBots = <<>> THEN up.result = "BotManagerError"
    ELSE /\ DOMAIN workers = 0..(up.total_chunks - 1)
         /\ AllWorkersDone
         /\ Cardinality(PostedByUpload) =
                Cardinality({i \in DOMAIN workers : workers[i].st = "ok"})
         /\ IF up.first_error # None
            THEN /\ up.result = up.first_error
                 /\ \A m \in PostedByUpload : ~tg[m].live
            ELSE /\ up.result \in {"Ok", "MongoError"}
                 /\ up.result = "Ok" <=>
                        (up.file_id # 0 /\
                         \E k \in DOMAIN files : files[k].file_id = up.file_id)

\* download_file went through every step its inputs and the tiers call for
DownloadRanToTheEnd ==
    IF dl.file_id = 0 THEN dl.result = "FileNotFound"
    ELSE /\ AllWorkersDone
         /\ \E k \in DOMAIN files :
                /\ files[k].file_id = dl.file_id
                /\ DOMAIN workers = 0..(Len(files[k].chunks) - 1)
         /\ \A i \in DOMAIN workers : workers[i].temp_path \notin DOMAIN fs
         /\ IF dl.first_error # None
            THEN dl.result = dl.first_error /\ dl.out \notin DOMAIN fs
            ELSE dl.result = "Ok" /\ dl.out \in DOMAIN fs

\* C17: whether or not, and whenever, the caller dropped the event receiver,
\* an upload_file or download_file that has returned went through all its
\* blob-tier, file and metadata operations and returned the result they call
\* for; the events the caller received are an initial part of the events sent
\* and the rest was discarded.
C17_DroppedReceiverChangesNothing ==
    /\ UploadReturned => UploadRanToTheEnd
    /\ DownloadReturned => DownloadRanToTheEnd
    /\ IsPrefix(up.received, up.events)
    /\ IsPrefix(dl.received, dl.events)
    /\ up.rx = "open" => up.received = up.events
    /\ dl.rx = "open" => dl.received = dl.events

C17_Witness_DownloadAfterEarlyDrop ==
    /\ DownloadReturned
    /\ dl.result = "Ok"
    /\ dl.rx = "dropped"
    /\ dl.received = <<>>
    /\ Len(dl.events) = 4
    /\ Len(fs[dl.out]) = CHUNK_SIZE + 1

\* workers that are executing their blob-tier operation
Executing == {i \in DOMAIN workers : workers[i].st = "run"}

\* workers past the global gate and not yet finished
PastGlobalGate == {i \in DOMAIN workers : workers[i].st \in {"waitB", "run"}}

\* C18: within a transfer at most G workers are executing a blob-tier
\* operation, and at most P of them are assigned to any one bot.
C18_GateBounds ==
    WorkersRunning =>
        /\ Cardinality(Executing) <= cfg.G
        /\ Cardinality(PastGlobalGate) <= cfg.G
        /\ \A b \in DOMAIN bot_permits :
               Cardinality({i \in Executing : workers[i].bot_id = b}) <= cfg.P

C18_Witness_BothGatesSaturated ==
    /\ WorkersRunning
    /\ Cardinality(DOMAIN workers) = 3
    /\ global_permits = 0
    /\ \E j \in DOMAIN workers : workers[j].st = "waitG"
    /\ \E i \in DOMAIN workers :
           workers[i].st = "waitB" /\ bot_permits[workers[i].bot_id] = 0

SomeWorkerCanMove ==
    \E i \in DOMAIN workers :
        \/ workers[i].st = "run"
        \/ workers[i].st = "waitG" /\ global_permits > 0
        \/ workers[i].st = "waitB" /\ bot_permits[workers[i].bot_id] > 0

\* C20: the nested gates never deadlock: while a transfer has unfinished
\* workers one of them can always move, and under fair scheduling every worker
\* that waits for the global gate comes to execute its blob-tier call.
C20_NoGateDeadlock ==
    /\ []((WorkersRunning /\ ~AllWorkersDone) => SomeWorkerCanMove)
    /\ \A i \in 0..GateLen :
           (WorkersRunning /\ i \in DOMAIN workers /\ workers[i].st = "waitG")
               ~> (i \in DOMAIN workers /\ workers[i].st \in {"run", "ok", "err"})

C20_Witness_LastWorkerRunsAfterWaiting ==
    /\ WorkersRunning
    /\ cfg.G = 1
    /\ Cardinality(DOMAIN workers) = 3
    /\ workers[2].st = "run"
    /\ workers[0].st = "ok"
    /\ workers[1].st = "ok"

\* workers of the upload that returned a chunk
SucceededWorkers == {i \in DOMAIN workers : workers[i].st = "ok"}

\* C21: upload_file returns, and any rollback delete happens, only when every
\* one of the total_chunks workers has finished; the deletes a rollback sends
\* are one per worker that returned success, for the message that worker
\* posted, and no others.
C21_RollbackAfterDrain ==
    /\ [][(up.pc = "workers" /\ up'.pc = "done") =>
            /\ \A i \in 0..(up.total_chunks - 1) :
                   i \in DOMAIN workers /\ workers[i].st \in {"ok", "err"}
            /\ up'.result # "Ok" =>
                   /\ Cardinality(up'.rolled_back) = Cardinality(SucceededWorkers)
                   /\ \A t \in up'.rolled_back :
                          \E k \in DOMAIN up.chunks :
                              /\ up.chunks[k].message_id = t.message_id
                              /\ up.chunks[k].index \in SucceededWorkers
                              /\ tg[t.message_id].token =
                                     workers[up.chunks[k].index].token]_vars
    /\ [][(up.pc = "workers" /\ \E m \in DOMAIN tg : tg[m].live /\ ~tg'[m].live) =>
            \A i \in DOMAIN workers : workers[i].st \in {"ok", "err"}]_vars

C21_Witness_RollbackOfTheOneSuccess ==
    /\ UploadReturned
    /\ up.result \notin {"Ok", "MongoError"}
    /\ up.total_chunks = 2
    /\ Len(up.chunks) = 1
    /\ Cardinality(up.rolled_back) = 1
    /\ \A t \in up.rolled_back : ~tg[t.message_id].live

\* C22: when every chunk worker succeeded and the metadata insert fails,
\* upload_file sends a delete for every uploaded chunk with the token of that
\* chunk's own bot and the chunk's message_id, emits Failed as its only
\* terminal event, returns the metadata error, stores no record and leaves
\* every bot's usage counter as it was.
C22_CommitFailureRollsBack ==
    [][(/\ up.pc = "workers"
        /\ up'.pc = "done"
        /\ \A i \in DOMAIN workers : workers[i].st = "ok"
        /\ up'.result # "Ok") =>
            /\ up'.result = "MongoError"
            /\ up'.rolled_back =
                   {[token |-> TokenOf(bots, up.chunks[k].bot_id),
                     message_id |-> up.chunks[k].message_id] : k \in DOMAIN up.chunks}
            /\ Cardinality({t.message_id : t \in up'.rolled_back}) = up.total_chunks
            /\ \A t \in up'.rolled_back : tg[t.message_id].token = t.token
            /\ up'.events[Len(up'.events)] = FailedEv("MongoError")
            /\ CountStatus(up'.events, "Failed") = 1
            /\ CountStatus(up'.events, "Completed") = 0
            /\ files' = files
            /\ bots' = bots]_vars

C22_Witness_TwoBotsRolledBack ==
    /\ UploadReturned
    /\ up.result = "MongoError"
    /\ Cardinality(up.rolled_back) = 2
    /\ Cardinality({t.token : t \in up.rolled_back}) = 2
    /\ \A t \in up.rolled_back : ~tg[t.message_id].live

\* C29 (as claimed): an upload_file that returns success raises by exactly one
\* the upload_count of each distinct bot that uploaded a chunk of the file and
\* leaves every other bot's upload_count as it was.
C29_UsageCountedOncePerBot ==
    [][(up.pc = "workers" /\ up'.pc = "done" /\ up'.result = "Ok") =>
          /\ Len(bots') = Len(bots)
          /\ \A k \in DOMAIN bots :
                 bots'[k].upload_count =
                     IF \E j \in DOMAIN up.chunks : up.chunks[j].bot_id = bots[k].bot_id
                     THEN bots[k].upload_count + 1
                     ELSE bots[k].upload_count]_vars

\* C23 (as claimed): against a blob tier whose failures are a 4xx other than
\* 429 (whatever its body), a malformed success response or a local I/O
\* error, no call is attempted twice, and a failed worker hands the error to
\* the caller as it is.
C23_OnlyTransientIsRetried ==
    up.pc \in {"workers", "done"} =>
        /\ \A i \in DOMAIN workers : workers[i].attempt = 0
        /\ up.first_error \in {None} \cup {AttemptError(o) : o \in TerminalOutcomes}

\* C24 (as claimed): when all failures of a chunk download are transient
\* (a network error of the URL resolution, a 429, a break in the middle of
\* the body), the worker retries from the URL resolution: it gives up only
\* after MAX_RETRIES attempts.
C24_TransientDownloadFailureIsRetried ==
    dl.pc \in {"workers", "done"} =>
        \A i \in DOMAIN workers :
            workers[i].st = "err" => workers[i].attempt = MAX_RETRIES

\* C25 (as claimed): in delete_file a chunk counts as failed only after its
\* deleteMessage call was attempted MAX_RETRIES times.
C25_DeleteIsRetried ==
    del.pc \in {"workers", "done"} =>
        \A i \in DOMAIN workers :
            workers[i].st = "err" => workers[i].attempt = MAX_RETRIES

\* bytes [i*CHUNK_SIZE, min((i+1)*CHUNK_SIZE, n)) of content
PlannedBytes(content, i, n) ==
    [b \in 1..(Min((i + 1) * CHUNK_SIZE, n) - i * CHUNK_SIZE) |->
        content[i * CHUNK_SIZE + b]]

\* C26: every document an upload posts for chunk i, by the first attempt or by
\* a retry, holds at most the planned chunk length, and for a source that is
\* not rewritten exactly the bytes from offset i*CHUNK_SIZE on: no attempt
\* goes on from where an earlier one stopped.
C26_EveryAttemptReadsFromTheOffset ==
    (up.pc \in {"workers", "done"} /\ up.path \in DOMAIN fs) =>
        \A m \in PostedByUpload :
            /\ Len(tg[m].data) <= CurrentChunkSize(tg[m].part, up.total_size)
            /\ Len(tg[m].data) <= CHUNK_SIZE
            /\ budget.mods = MaxMods =>
                   tg[m].data = PlannedBytes(fs[up.path], tg[m].part, up.total_size)

C26_Witness_RetryPostsTheSameBytes ==
    /\ up.pc \in {"workers", "done"}
    /\ budget.mods = MaxMods
    /\ \E m1, m2 \in PostedByUpload :
           /\ m1 # m2
           /\ tg[m1].part = 1
           /\ tg[m2].part = 1
           /\ tg[m1].data = tg[m2].data
           /\ Len(tg[m1].data) = CHUNK_SIZE
    /\ workers[1].attempt = 1

ActiveIds == {bots[i].bot_id : i \in {j \in DOMAIN bots : bots[j].active}}

\* the bot at position k (from 0) of the active set in bot_id order
BotAt(k) ==
    CHOOSE b \in ActiveIds :
        Cardinality({c \in ActiveIds : BotRank(c) < BotRank(b)}) = k

\* chunk i is given to, posted by and recorded with bot_of[i]
UploadedBy(bot_of) ==
    /\ \A i \in DOMAIN workers : workers[i].bot_id = bot_of[i]
    /\ \A k \in DOMAIN up.chunks : up.chunks[k].bot_id = bot_of[up.chunks[k].index]
    /\ \A m \in PostedByUpload : tg[m].token = "token_" \o bot_of[tg[m].part]
    /\ up.result = "Ok" =>
           \A k \in DOMAIN files[Len(files)].chunks :
               files[Len(files)].chunks[k].bot_id = bot_of[k - 1]

\* C27: a file larger than CHUNK_SIZE has chunk i uploaded by, and recorded
\* with, the bot at position i mod B of the active bots in bot_id order,
\* whatever the order of the roster in the store.
C27_RoundRobinOverSortedBots ==
    (up.pc \in {"workers", "done"} /\ up.total_size > CHUNK_SIZE /\ ActiveIds # {}) =>
        UploadedBy([i \in 0..(up.total_chunks - 1) |-> BotAt(i % Cardinality(ActiveIds))])

C27_Witness_WrapAroundUnsortedRoster ==
    /\ up.pc = "done"
    /\ up.result = "Ok"
    /\ up.total_chunks = 3
    /\ Len(bots) = 3
    /\ bots[1].bot_id = "b3"
    /\ bots[2].bot_id = "b1"
    /\ ActiveIds = {"b1", "b3"}
    /\ [k \in 1..3 |-> files[1].chunks[k].bot_id] = <<"b1", "b3", "b1">>

\* the active bot with the lowest upload_count, the smallest bot_id among equals
LeastUsed ==
    CHOOSE b \in ActiveIds :
        LET cnt(x) == bots[CHOOSE i \in DOMAIN bots : bots[i].bot_id = x].upload_count
        IN  \A c \in ActiveIds :
                \/ cnt(b) < cnt(c)
                \/ cnt(b) = cnt(c) /\ BotRank(b) <= BotRank(c)

\* C28: a file of at most CHUNK_SIZE bytes is uploaded by, and recorded with,
\* the active bot of lowest upload_count, the smallest bot_id among the bots
\* that share the lowest count.
C28_SingleBotIsLeastUsed ==
    (up.pc \in {"workers", "done"} /\ up.total_size <= CHUNK_SIZE /\ ActiveIds # {}) =>
        UploadedBy([i \in 0..(up.total_chunks - 1) |-> LeastUsed])

C28_Witness_TieBrokenByBotId ==
    /\ up.pc = "done"
    /\ up.result = "Ok"
    /\ up.total_size = CHUNK_SIZE
    /\ bots = <<Bot("b3", 0, TRUE), Bot("b1", 1, TRUE), Bot("b2", 0, TRUE)>>
    /\ files[1].chunks[1].bot_id = "b2"

\* this step is the start of a delete or download (record after the step) of
\* a file that the store holds
StartedOn(after) ==
    /\ budget'.runs < budget.runs
    /\ after.pc # "idle"
    /\ GetFileByPath(after.path) # 0

RecordedBots(after) == UniqueBotIds(files[GetFileByPath(after.path)].chunks)

BotNotFound(after) == after.pc = "done" /\ after.result = "BotManagerError"

\* no worker of the invocation was spawned and nothing was sent or written
NoWorkerStarted == workers' = workers /\ tg' = tg /\ fs' = fs

\* every worker has the bot_id recorded in its chunk and the token that the
\* cache, or the roster when the cache missed, holds for that bot_id
WorkersUseRecordedBots(after) ==
    LET chunks == files[GetFileByPath(after.path)].chunks
        cached == RecordedBots(after) \subseteq DOMAIN token_cache
    IN  /\ after.pc = "workers"
        /\ DOMAIN workers' = 0..(Len(chunks) - 1)
        /\ \A i \in DOMAIN workers' :
               \E k \in DOMAIN chunks :
                   /\ chunks[k].index = workers'[i].index
                   /\ chunks[k].bot_id = workers'[i].bot_id
                   /\ workers'[i].token =
                          IF cached THEN token_cache[chunks[k].bot_id]
                          ELSE TokenOf(ActiveBots, chunks[k].bot_id)

TokenLookup(after) ==
    StartedOn(after) =>
        /\ after.refreshes <= 1
        /\ (/\ ~(RecordedBots(after) \subseteq ActiveIds)
            /\ ~(RecordedBots(after) \subseteq DOMAIN token_cache)) =>
               (BotNotFound(after) /\ after.refreshes = 1 /\ NoWorkerStarted)
        /\ RecordedBots(after) \subseteq DOMAIN token_cache =>
               (~BotNotFound(after) /\ after.refreshes = 0 /\ token_cache' = token_cache)
        /\ ~BotNotFound(after) => WorkersUseRecordedBots(after)

\* C30 (amended): download and delete give each chunk's worker the token held
\* for the bot_id recorded in the chunk.  When every recorded bot is in the
\* token cache the cached tokens are used without a refresh, also for a bot
\* that has left the active roster.  Otherwise the cache is refreshed once,
\* and when a recorded bot is then missing from the active roster the
\* operation fails with the bot-not-found error before any worker starts.
C30_TokenLookupThroughCache ==
    [][TokenLookup(del') /\ TokenLookup(dl')]_vars

C30_Witness_MissingBotAfterRestart ==
    /\ dl.pc = "done"
    /\ dl.result = "BotManagerError"
    /\ dl.refreshes = 1
    /\ Len(files) = 1
    /\ UniqueBotIds(files[1].chunks) = {"b1", "b2"}
    /\ ActiveIds = {"b1"}

MissingBotFails(after) ==
    (StartedOn(after) /\ ~(RecordedBots(after) \subseteq ActiveIds)) =>
        (BotNotFound(after) /\ after.refreshes <= 1 /\ NoWorkerStarted)

\* C30 (as claimed): whatever the token cache holds, a download or delete of a
\* file with a recorded bot that is missing from the active roster fails with
\* the bot-not-found error before any worker starts, after at most one refresh.
C30_MissingBotAlwaysFails ==
    [][MissingBotFails(del') /\ MissingBotFails(dl')]_vars

\* download_file has returned the error of a chunk worker
DownloadFailedInWorker ==
    /\ dl.pc = "done"
    /\ dl.first_error # None
    /\ \E i \in DOMAIN workers : workers[i].st = "err"

\* C31 (as claimed): when download_file returns because a chunk worker failed,
\* no temp file of any chunk is on disk, the failed worker's included.
C31_NoTempFileAfterWorkerFailure ==
    DownloadFailedInWorker =>
        \A i \in DOMAIN workers : workers[i].temp_path \notin DOMAIN fs

\* whether path exists, and its content
FileState(disk, path) ==
    IF path \in DOMAIN disk THEN <<TRUE, disk[path]>> ELSE <<FALSE, <<>>>>

\* C32: no step of a download_file invocation creates or changes the file at
\* out_path unless every chunk worker has succeeded; an invocation in which a
\* worker failed leaves out_path as it was before the call.
C32_OutputOnlyAfterAllWorkersOk ==
    [][(/\ dl'.pc \in {"workers", "done"}
        /\ FileState(fs', dl'.out) # FileState(fs, dl'.out)) =>
            /\ dl.pc = "workers"
            /\ AllWorkersDone
            /\ \A i \in DOMAIN workers : workers[i].st = "ok"
            /\ dl.first_error = None]_vars

C32_Witness_FailedDownloadKeepsOldOutput ==
    /\ DownloadFailedInWorker
    /\ \E i \in DOMAIN workers : workers[i].st = "ok"
    /\ dl.out = "b"
    /\ Len(fs["a"]) > CHUNK_SIZE
    /\ fs["b"] = Canon("b", Len(fs["a"]))

\* C33 (as claimed): for a source that is not rewritten, the shared progress
\* counter of an upload never exceeds total_size and equals total_size once
\* Completed is emitted, also when an attempt was retried.
C33_ProgressWithinTotalSize ==
    (up.pc \in {"workers", "done"} /\ budget.mods = MaxMods) =>
        /\ up.progress <= up.total_size
        /\ CountStatus(up.events, "Completed") > 0 => up.progress = up.total_size

\* C34 (as claimed): a delete_file that found some chunks of the record
\* already deleted by an earlier, partially failed delete_file, and whose
\* deletes of the remaining chunks were all accepted, returns success and
\* removes the record.
C34_RetryAfterPartialDeleteSucceeds ==
    (/\ del.pc = "done"
     /\ del.chunks # <<>>
     /\ del.result # "MongoError"
     /\ \E i \in DOMAIN workers : workers[i].st = "ok"
     /\ \A k \in DOMAIN del.chunks : del.chunks[k].message_id \notin LiveMsgs) =>
        /\ del.result = "Ok"
        /\ \A k \in DOMAIN files : files[k].file_id # del.file_id

\* C35 (as claimed): after a successful upload_file every document the blob
\* tier accepted during the upload, over all attempts, is referenced by a
\* chunk of the committed record.
C35_NoUnreferencedBlobAfterSuccess ==
    (up.pc = "done" /\ up.result = "Ok") =>
        \A m \in PostedByUpload :
            \E f \in DOMAIN files :
                /\ files[f].file_id = up.file_id
                /\ \E k \in DOMAIN files[f].chunks : files[f].chunks[k].message_id = m

\* the file_ids of the records in the store
StoredIds(store) == {store[k].file_id : k \in DOMAIN store}

\* C36 (as claimed): when delete_file removes a record from the store, it is
\* the record it loaded at the start, whose chunks it deleted, and no other,
\* whatever ran on the store in between.
C36_RemovesTheLoadedRecord ==
    [][(del.pc = "workers" /\ del'.pc = "done" /\ files' # files) =>
            StoredIds(files) \ StoredIds(files') = {del.file_id}]_vars

\* C37: every upload_file, download_file and delete_file invocation that has
\* started returns, given that every call it makes returns: no worker makes
\* more than MAX_RETRIES attempts, and the collector goes on once the workers
\* it spawned, one per chunk, have finished.
C37_EveryInvocationReturns ==
    /\ [](\A i \in DOMAIN workers : workers[i].attempt <= MAX_RETRIES)
    /\ [](up.pc = "workers" => DOMAIN workers = 0..(up.total_chunks - 1))
    /\ (up.pc \in {"hashing", "workers"}) ~> (up.pc = "done")
    /\ (dl.pc = "workers") ~> (dl.pc = "done")
    /\ (del.pc = "workers") ~> (del.pc = "done")

C37_Witness_ReturnsAfterExhaustion ==
    /\ dl.pc = "done"
    /\ dl.result = "RetryExhausted"
    /\ \E i \in DOMAIN workers : workers[i].st = "err" /\ workers[i].attempt = MAX_RETRIES
    /\ \E i \in DOMAIN workers : workers[i].st = "ok"

\* C39: the delay after failed attempt k, k = 0..4, is at least 0.75 and at
\* most 1.25 times 1000 * 2^k ms, and at least 100 ms.
C39_BackoffWithinJitterBand ==
    backoff.slept =>
        /\ backoff.attempt \in 0..4
        /\ 4 * backoff.ms >= 3 * 1000 * Pow2(backoff.attempt)
        /\ 4 * backoff.ms <= 5 * 1000 * Pow2(backoff.attempt)
        /\ backoff.ms >= 100

C39_Witness_ShortestLastDelay ==
    /\ backoff.slept
    /\ backoff.attempt = 4
    /\ backoff.ms = 12000

\* C40 (as claimed): a worker whose call exhausted its MAX_RETRIES attempts
\* waited MAX_RETRIES - 1 times, between the attempts only.
C40_WaitsBetweenAttemptsOnly ==
    \A i \in DOMAIN workers :
        (workers[i].st = "err" /\ workers[i].attempt = MAX_RETRIES) =>
            workers[i].waits = MAX_RETRIES - 1

\* the workers of the second invocation that execute, and that are past its
\* global gate
PeerExecuting == {i \in DOMAIN peer.workers : peer.workers[i].st = "run"}

PeerPastGlobalGate ==
    {i \in DOMAIN peer.workers : peer.workers[i].st \in {"waitB", "run"}}

\* C38: each invocation has gates of its own: the permits out of an
\* invocation's gates are exactly those its own workers hold, whatever the
\* other invocation holds, so each invocation alone stays within G and P,
\* and two invocations together within 2*G and, for one bot, 2*P.
C38_GatesPerInvocation ==
    /\ WorkersRunning =>
           /\ cfg.G - global_permits = Cardinality(PastGlobalGate)
           /\ \A b \in DOMAIN bot_permits :
                  cfg.P - bot_permits[b] =
                      Cardinality({i \in Executing : workers[i].bot_id = b})
           /\ Cardinality(Executing) <= cfg.G
    /\ peer.pc = "workers" =>
           /\ cfg.G - peer.global_permits = Cardinality(PeerPastGlobalGate)
           /\ \A b \in DOMAIN peer.bot_permits :
                  cfg.P - peer.bot_permits[b] =
                      Cardinality({i \in PeerExecuting : peer.workers[i].bot_id = b})
           /\ Cardinality(PeerExecuting) <= cfg.G
    /\ (WorkersRunning /\ peer.pc = "workers") =>
           /\ Cardinality(Executing) + Cardinality(PeerExecuting) <= 2 * cfg.G
           /\ \A b \in DOMAIN bot_permits \cap DOMAIN peer.bot_permits :
                  Cardinality({i \in Executing : workers[i].bot_id = b})
                    + Cardinality({i \in PeerExecuting : peer.workers[i].bot_id = b})
                      <= 2 * cfg.P

C38_Witness_BothInvocationsSaturated ==
    /\ dl.pc = "workers"
    /\ peer.pc = "workers"
    /\ cfg.G = 2
    /\ Cardinality(Executing) = cfg.G
    /\ Cardinality(PeerExecuting) = cfg.G
    /\ \E i \in Executing, j \in PeerExecuting :
           /\ workers[i].bot_id = peer.workers[j].bot_id
           /\ bot_permits[workers[i].bot_id] = 0
           /\ peer.bot_permits[workers[i].bot_id] = 0

====
